---- MODULE Spec2Model ----
(***************************************************************************)
(* PopForm (Illinois Population Data explorer): the aggregation engine of  *)
(* src/app.py and the filters it calls, as a state machine.                *)
(*                                                                         *)
(* Conventions.  A DataFrame is a sequence of rows; a row is a record      *)
(* whose fields are the columns.  Text is a TLA+ string, taken apart with  *)
(* Len and SubSeq as Python takes it apart.  A Percent is held in tenths   *)
(* (66.7 is 667), since every Percent the code stores went through         *)
(* round(1).  A missing cell (None / np.nan) of a text column is NaN, of   *)
(* the County column NaNCode.  An Optional[int] is <<>> or <<n>>.          *)
(***************************************************************************)
EXTENDS Integers, Sequences, FiniteSets, TLC

\* ------------------------------------------------------------------------
\* Bounds of the model
\* ------------------------------------------------------------------------
MaxRecords == 2
MaxCount == 2
MaxDims == 2

\* ------------------------------------------------------------------------
\* Text helpers (Python str operations used by the code)
\* ------------------------------------------------------------------------
NaN == "nan"
NaNCode == 0 - 1
None == <<>>
Some(x) == <<x>>

Digits == "0123456789"
Alphabet == " +-0123456789ABCDEFGHIJKLMNOPQRSTUVWXYZ_abcdefghijklmnopqrstuvwxyz"

CharAt(s, i) == SubSeq(s, i, i)

\* position of the first occurrence of the character ch in s from index i on, 0 when absent
RECURSIVE FindFrom(_, _, _)
FindFrom(s, ch, i) ==
    IF i > Len(s) THEN 0
    ELSE IF CharAt(s, i) = ch THEN i
    ELSE FindFrom(s, ch, i + 1)

Contains(s, ch) == FindFrom(s, ch, 1) # 0

EndsWith(s, ch) == Len(s) > 0 /\ CharAt(s, Len(s)) = ch

\* ord() restricted to the characters the data uses, in code-point order
CharCode(ch) == FindFrom(Alphabet, ch, 1)

\* Python's a < b on str
RECURSIVE StrLess(_, _)
StrLess(a, b) ==
    IF Len(b) = 0 THEN FALSE
    ELSE IF Len(a) = 0 THEN TRUE
    ELSE IF Head(a) = Head(b) THEN StrLess(Tail(a), Tail(b))
    ELSE CharCode(Head(a)) < CharCode(Head(b))

\* str.isdigit()
RECURSIVE IsDigit(_)
IsDigit(s) ==
    /\ Len(s) > 0
    /\ Contains(Digits, Head(s))
    /\ (Len(s) = 1 \/ IsDigit(Tail(s)))

RECURSIVE DigitsValue(_, _)
DigitsValue(s, acc) ==
    IF Len(s) = 0 THEN acc
    ELSE DigitsValue(Tail(s), 10 * acc + (FindFrom(Digits, Head(s), 1) - 1))

\* str.strip() for blanks
RECURSIVE LStrip(_)
LStrip(s) == IF Len(s) > 0 /\ Head(s) = " " THEN LStrip(Tail(s)) ELSE s

RECURSIVE RStrip(_)
RStrip(s) == IF EndsWith(s, " ") THEN RStrip(SubSeq(s, 1, Len(s) - 1)) ELSE s

Strip(s) == RStrip(LStrip(s))

\* int(text): <<n>>, or <<>> where Python raises ValueError.  int() accepts
\* surrounding blanks and one leading sign.
ParseInt(text) ==
    LET s == Strip(text)
        signed == Len(s) > 0 /\ Head(s) \in {"+", "-"}
        body == IF signed THEN Tail(s) ELSE s
    IN  IF ~IsDigit(body) THEN None
        ELSE IF signed /\ Head(s) = "-" THEN Some(0 - DigitsValue(body, 0))
        ELSE Some(DigitsValue(body, 0))

\* str.split(sep) for a one-character separator
RECURSIVE Split(_, _)
Split(s, sep) ==
    LET i == FindFrom(s, sep, 1)
    IN  IF i = 0 THEN <<s>>
        ELSE <<SubSeq(s, 1, i - 1)>> \o Split(SubSeq(s, i + 1, Len(s)), sep)

Max(a, b) == IF a >= b THEN a ELSE b
Min(a, b) == IF a <= b THEN a ELSE b

SetMin(S) == CHOOSE x \in S : \A y \in S : x <= y

SetMax(S) == CHOOSE x \in S : \A y \in S : x >= y

Range(f) == {f[i] : i \in DOMAIN f}

\* ------------------------------------------------------------------------
\* Reference tables of src/app.py
\* ------------------------------------------------------------------------
COOK_SET == {31}
COLLAR_SET == {43, 89, 97, 125, 197}
URBAN_SET == {201, 125, 97, 39, 89, 43, 31, 93, 197, 91, 143, 179, 127, 19, 183, 165, 109, 113, 173}
RURAL_SET ==
    {1,3,5,7,9,11,13,15,17,21,23,25,27,29,33,35,37,41,45,47,49,51,53,55,57,59,61,63,65,67,
     69,71,73,75,77,79,81,83,85,87,95,99,101,103,105,107,111,115,117,119,121,123,129,131,
     133,135,137,139,141,145,147,149,151,153,155,157,159,161,163,167,169,171,175,177,181,
     185,187,189,191,193,195,199,203}
REGION_LABELS == {"Cook County", "Collar Counties", "Urban Counties", "Rural Counties"}

\* RACE_DISPLAY_TO_CODE as a set of <<display, code>> pairs
RACE_DISPLAY_TO_CODE ==
    { <<"Two or More Races", "TOM">>, <<"American Indian and Alaska Native", "AIAN">>,
      <<"Black or African American", "Black">>, <<"White", "White">>,
      <<"Native Hawaiian and Other Pacific Islander", "NHOPI">>, <<"Asian", "Asian">> }

CODE_TO_BRACKET ==
    << "0-4", "5-9", "10-14", "15-19", "20-24", "25-29", "30-34", "35-39", "40-44",
       "45-49", "50-54", "55-59", "60-64", "65-69", "70-74", "75-79", "80-84", "80+" >>

OpenEnd == 999
MinAgeCode == 1
MaxAgeCode == 18

\* ------------------------------------------------------------------------
\* Bracket Resolver
\* ------------------------------------------------------------------------
\* combine_codes_to_label: the parsed (low, high) of one code's bracket, or <<>>
BracketBounds(c) ==
    LET s == IF c \in DOMAIN CODE_TO_BRACKET THEN CODE_TO_BRACKET[c] ELSE ""
    IN  IF Contains(s, "-")
        THEN LET p == Split(s, "-") IN << <<ParseInt(p[1])[1], ParseInt(p[2])[1]>> >>
        ELSE IF EndsWith(s, "+")
        THEN << <<ParseInt(SubSeq(s, 1, Len(s) - 1))[1], OpenEnd>> >>
        ELSE <<>>

RECURSIVE JoinInts(_, _)
JoinInts(S, sep) ==
    IF S = {} THEN ""
    ELSE LET m == SetMin(S)
         IN  IF S = {m} THEN ToString(m) ELSE ToString(m) \o sep \o JoinInts(S \ {m}, sep)

combine_codes_to_label_last_code(codes) ==
    IF codes = {} THEN ""
    ELSE CODE_TO_BRACKET[SetMax(codes)]

combine_codes_to_label(codes) ==
    IF codes = {} THEN ""
    ELSE LET known == {c \in codes : BracketBounds(c) # <<>>}
             lows == {BracketBounds(c)[1][1] : c \in known}
             highs == {BracketBounds(c)[1][2] : c \in known}
         IN  IF known = {} THEN JoinInts(codes, "-")
             ELSE IF SetMax(highs) >= OpenEnd THEN ToString(SetMin(lows)) \o "+"
             ELSE ToString(SetMin(lows)) \o "-" \o ToString(SetMax(highs))

\* frontend_bracket_utils.BRACKET_MAP: expression -> <<min code, max code>>
\* (a single code c is the range <<c, c>>: df["Age"] == c)
BRACKET_MAP ==
    { <<"0-4", 1, 1>>, <<"5-9", 2, 2>>, <<"10-14", 3, 3>>, <<"15-19", 4, 4>>,
      <<"20-24", 5, 5>>, <<"25-29", 6, 6>>, <<"30-34", 7, 7>>, <<"35-39", 8, 8>>,
      <<"40-44", 9, 9>>, <<"45-49", 10, 10>>, <<"50-54", 11, 11>>, <<"55-59", 12, 12>>,
      <<"60-64", 13, 13>>, <<"65-69", 14, 14>>, <<"70-74", 15, 15>>, <<"75-79", 16, 16>>,
      <<"80-84", 17, 17>>, <<"80+", 18, 18>>,
      <<"20-64", 5, 13>>, <<"65+", 14, 18>>, <<"0-19", 1, 4>>, <<"20+", 5, 18>> }

\* the expression parsed structurally only, the lookup table not consulted
parse_implicit_bracket_no_table(age, bracket_expr) ==
    LET e == Strip(bracket_expr)
    IN  IF EndsWith(e, "+")
        THEN LET start == ParseInt(SubSeq(e, 1, Len(e) - 1))
             IN  start # None /\ age >= start[1]
        ELSE IF Contains(e, "-")
        THEN LET parts == Split(e, "-")
                 mn == ParseInt(parts[1])
                 mx == ParseInt(parts[2])
             IN  mn # None /\ mx # None /\ age >= mn[1] /\ age <= mx[1]
        ELSE FALSE

\* parse_implicit_bracket, for one row: does the expression select age code `age`
parse_implicit_bracket(age, bracket_expr) ==
    LET e == Strip(bracket_expr)
        hit == {t \in BRACKET_MAP : t[1] = e}
    IN  IF hit # {}
        THEN LET val == CHOOSE v \in hit : TRUE IN age >= val[2] /\ age <= val[3]
        ELSE IF EndsWith(e, "+")
        THEN LET start == ParseInt(SubSeq(e, 1, Len(e) - 1))
             IN  start # None /\ age >= start[1]
        ELSE IF Contains(e, "-")
        THEN LET parts == Split(e, "-")
                 mn == ParseInt(parts[1])
                 mx == ParseInt(parts[2])
             IN  mn # None /\ mx # None /\ age >= mn[1] /\ age <= mx[1]
        ELSE FALSE

\* the ranges applied so that a row keeps the label of the first range that covers it
RECURSIVE ApplyCustomRanges_first_wins(_, _, _, _)
ApplyCustomRanges_first_wins(ages, ranges, col, covered) ==
    IF ranges = <<>>
    THEN [i \in DOMAIN ages |-> IF covered[i] THEN col[i] ELSE "Other Ages"]
    ELSE LET mn_i == Max(MinAgeCode, Head(ranges)[1])
             mx_i == Min(MaxAgeCode, Head(ranges)[2])
             label == combine_codes_to_label(mn_i .. mx_i)
             mask == [i \in DOMAIN ages |-> ages[i] >= mn_i /\ ages[i] <= mx_i]
         IN  IF mn_i > mx_i
             THEN ApplyCustomRanges_first_wins(ages, Tail(ranges), col, covered)
             ELSE ApplyCustomRanges_first_wins(ages, Tail(ranges),
                      [i \in DOMAIN ages |-> IF mask[i] /\ ~covered[i] THEN label ELSE col[i]],
                      [i \in DOMAIN ages |-> covered[i] \/ mask[i]])

\* the ranges applied with the bounds as supplied, not clamped
RECURSIVE ApplyCustomRanges_unclamped(_, _, _, _)
ApplyCustomRanges_unclamped(ages, ranges, col, covered) ==
    IF ranges = <<>>
    THEN [i \in DOMAIN ages |-> IF covered[i] THEN col[i] ELSE "Other Ages"]
    ELSE LET mn_i == Head(ranges)[1]
             mx_i == Head(ranges)[2]
             label == combine_codes_to_label(Max(MinAgeCode, mn_i) .. Min(MaxAgeCode, mx_i))
             mask == [i \in DOMAIN ages |-> ages[i] >= mn_i /\ ages[i] <= mx_i]
         IN  IF mn_i > mx_i
             THEN ApplyCustomRanges_unclamped(ages, Tail(ranges), col, covered)
             ELSE ApplyCustomRanges_unclamped(ages, Tail(ranges),
                      [i \in DOMAIN ages |-> IF mask[i] THEN label ELSE col[i]],
                      [i \in DOMAIN ages |-> covered[i] \/ mask[i]])

\* The AgeGroup column under custom ranges: the ranges are applied in the
\* order supplied to the column `col` (NaN at first) and the mask `covered`.
RECURSIVE ApplyCustomRanges(_, _, _, _)
ApplyCustomRanges(ages, ranges, col, covered) ==
    IF ranges = <<>>
    THEN [i \in DOMAIN ages |-> IF covered[i] THEN col[i] ELSE "Other Ages"]
    ELSE LET mn_i == Max(MinAgeCode, Head(ranges)[1])
             mx_i == Min(MaxAgeCode, Head(ranges)[2])
             label == combine_codes_to_label(mn_i .. mx_i)
             mask == [i \in DOMAIN ages |-> ages[i] >= mn_i /\ ages[i] <= mx_i]
         IN  IF mn_i > mx_i
             THEN ApplyCustomRanges(ages, Tail(ranges), col, covered)
             ELSE ApplyCustomRanges(ages, Tail(ranges),
                      [i \in DOMAIN ages |-> IF mask[i] THEN label ELSE col[i]],
                      [i \in DOMAIN ages |-> covered[i] \/ mask[i]])

\* The AgeGroup column under a named bracket definition
RECURSIVE ApplyBracketExprs(_, _, _)
ApplyBracketExprs(ages, exprs, col) ==
    IF exprs = <<>>
    THEN [i \in DOMAIN ages |-> IF col[i] = NaN THEN "Other Ages" ELSE col[i]]
    ELSE ApplyBracketExprs(ages, Tail(exprs),
             [i \in DOMAIN ages |->
                 IF parse_implicit_bracket(ages[i], Head(exprs)) THEN Head(exprs) ELSE col[i]])

WithCol(r, c, v) == [k \in DOMAIN r \cup {c} |-> IF k = c THEN v ELSE r[k]]

HasCol(df, c) == \E i \in DOMAIN df.columns : df.columns[i] = c

AddCol(df, c, vals) ==
    [columns |-> IF HasCol(df, c) THEN df.columns ELSE Append(df.columns, c),
     rows |-> [i \in DOMAIN df.rows |-> WithCol(df.rows[i], c, vals[i])]]

\* attach_agegroup_column; agegroup_for_backend is "" for None
attach_agegroup_column(df, include_age, agegroup_for_backend, custom_ranges, agegroup_map_implicit) ==
    LET ages == [i \in DOMAIN df.rows |-> df.rows[i].Age]
        nans == [i \in DOMAIN df.rows |-> NaN]
    IN  IF ~include_age THEN df
        ELSE IF custom_ranges # <<>>
        THEN AddCol(df, "AgeGroup",
                 ApplyCustomRanges(ages, custom_ranges, nans, [i \in DOMAIN df.rows |-> FALSE]))
        ELSE IF agegroup_for_backend # ""
        THEN AddCol(df, "AgeGroup",
                 ApplyBracketExprs(ages,
                     IF agegroup_for_backend \in DOMAIN agegroup_map_implicit
                     THEN agegroup_map_implicit[agegroup_for_backend] ELSE <<>>,
                     nans))
        ELSE AddCol(df, "AgeGroup", [i \in DOMAIN df.rows |-> "All Ages"])

\* ------------------------------------------------------------------------
\* Region Classifier
\* ------------------------------------------------------------------------
\* _county_code_from_row: row is a record; the result is an Optional[int]
_county_code_from_row(row, counties_map) ==
    IF "County Code" \in DOMAIN row /\ row["County Code"] # NaNCode
    THEN Some(row["County Code"])
    ELSE IF "County" \in DOMAIN row /\ row["County"] # NaNCode
    THEN Some(row["County"])
    ELSE IF "County Name" \in DOMAIN row /\ row["County Name"] # NaN
    THEN IF row["County Name"] \in DOMAIN counties_map
         THEN Some(counties_map[row["County Name"]]) ELSE None
    ELSE None

\* the membership tests in another order: the Urban set is asked first
_code_to_region_urban_first(code) ==
    IF code = None THEN NaN
    ELSE LET c == code[1]
         IN  IF c \in URBAN_SET THEN "Urban Counties"
             ELSE IF c \in COOK_SET THEN "Cook County"
             ELSE IF c \in COLLAR_SET THEN "Collar Counties"
             ELSE IF c \in RURAL_SET THEN "Rural Counties"
             ELSE "Unknown Region"

\* _code_to_region: the result None is the missing cell NaN
_code_to_region(code) ==
    IF code = None THEN NaN
    ELSE LET c == code[1]
         IN  IF c \in COOK_SET THEN "Cook County"
             ELSE IF c \in COLLAR_SET THEN "Collar Counties"
             ELSE IF c \in URBAN_SET THEN "Urban Counties"
             ELSE IF c \in RURAL_SET THEN "Rural Counties"
             ELSE "Unknown Region"

attach_region_column(df, counties_map) ==
    IF df.rows = <<>> THEN df
    ELSE IF HasCol(df, "Region")
    THEN AddCol(df, "Region",
             [i \in DOMAIN df.rows |->
                 LET v == df.rows[i].Region
                 IN  IF v \in REGION_LABELS THEN v
                     ELSE _code_to_region(_county_code_from_row(
                              [k \in {"County Code", "County"} |-> NaNCode] @@ ("County Name" :> v),
                              counties_map))])
    ELSE AddCol(df, "Region",
             [i \in DOMAIN df.rows |-> _code_to_region(_county_code_from_row(df.rows[i], counties_map))])

\* ------------------------------------------------------------------------
\* Grouping Aggregator
\* ------------------------------------------------------------------------
\* the county map (name -> code) loaded from the form-control file
counties_map == ("Cook" :> 31) @@ ("DuPage" :> 43) @@ ("Adams" :> 1)

\* the implicit bracket definitions loaded from the form-control file
agegroup_map_implicit ==
    ("agegroup15" :> <<"0-19", "20+">>) @@ ("agegroup14" :> <<"0-19", "20-64", "65+">>)

RECURSIVE SelectNotAll(_)
SelectNotAll(gs) ==
    IF gs = <<>> THEN <<>>
    ELSE IF Head(gs) # "All" THEN <<Head(gs)>> \o SelectNotAll(Tail(gs))
    ELSE SelectNotAll(Tail(gs))

InSeq(v, sq) == \E i \in DOMAIN sq : sq[i] = v

RECURSIVE SumCount(_)
SumCount(rows) == IF rows = <<>> THEN 0 ELSE Head(rows).Count + SumCount(Tail(rows))

\* ensure_county_names, the 'County' column: a digit string naming a mapped code becomes its name
CountyLabelMap(v, cmap) ==
    IF IsDigit(v) /\ \E n \in DOMAIN cmap : cmap[n] = ParseInt(v)[1]
    THEN CHOOSE n \in DOMAIN cmap : cmap[n] = ParseInt(v)[1]
    ELSE v

\* ensure_county_names, 'County Name' from 'County Code': map(id_to_name).fillna(code);
\* the fallback cell holds the code and is rendered here as the text every consumer prints
CountyNameOf(code, cmap) ==
    IF \E n \in DOMAIN cmap : cmap[n] = code
    THEN CHOOSE n \in DOMAIN cmap : cmap[n] = code
    ELSE IF code = NaNCode THEN NaN
    ELSE ToString(code)

\* aggregate_multi._empty: the columns of the empty table
EmptyColumns(gvc) ==
    (IF ~InSeq("County", gvc) THEN <<"County">> ELSE <<>>)
    \o [i \in DOMAIN gvc |-> IF gvc[i] = "Age" THEN "AgeGroup" ELSE gvc[i]]
    \o <<"Count", "Percent", "Year">>

_empty(gvc) == [columns |-> EmptyColumns(gvc), rows |-> <<>>]

GroupFields(gvc) == [i \in DOMAIN gvc |-> IF gvc[i] = "Age" THEN "AgeGroup" ELSE gvc[i]]

KeyOf(r, gf) == [i \in DOMAIN gf |-> r[gf[i]]]

\* the sort order of one group key column: numbers, or text; a missing value sorts last
ValLess(col, a, b) ==
    IF col = "County" THEN a # NaNCode /\ (b = NaNCode \/ a < b)
    ELSE a # NaN /\ (b = NaN \/ StrLess(a, b))

RECURSIVE KeyLess(_, _, _)
KeyLess(gf, k1, k2) ==
    IF gf = <<>> THEN FALSE
    ELSE IF Head(k1) = Head(k2) THEN KeyLess(Tail(gf), Tail(k1), Tail(k2))
    ELSE ValLess(Head(gf), Head(k1), Head(k2))

RECURSIVE SortKeys(_, _)
SortKeys(K, gf) ==
    IF K = {} THEN <<>>
    ELSE LET m == CHOOSE k \in K : \A o \in K \ {k} : KeyLess(gf, k, o)
         IN  <<m>> \o SortKeys(K \ {m}, gf)

RECURSIVE SumWhere(_, _, _)
SumWhere(rows, gf, key) ==
    IF rows = <<>> THEN 0
    ELSE (IF KeyOf(Head(rows), gf) = key THEN Head(rows).Count ELSE 0)
         + SumWhere(Tail(rows), gf, key)

\* the summed rows of a groupby, one per key of `keys`, in that order
GroupRowsOf(rows, gf, keys) ==
    [j \in DOMAIN keys |->
        [c \in Range(gf) \cup {"Count"} |->
            IF c = "Count" THEN SumWhere(rows, gf, keys[j])
            ELSE keys[j][CHOOSE i \in DOMAIN gf : gf[i] = c]]]

\* the distinct group keys of the rows
KeysOf(rows, gf) == {KeyOf(rows[i], gf) : i \in DOMAIN rows}

\* the rows without a missing value in a key column
DropNa(rows, gf) ==
    SelectSeq(rows, LAMBDA r : \A i \in DOMAIN gf :
                        r[gf[i]] # (IF gf[i] = "County" THEN NaNCode ELSE NaN))

\* groupby with the default dropna=True: a row with a missing key value is left out
GroupBySum_dropna(rows, gf) ==
    GroupRowsOf(DropNa(rows, gf), gf, SortKeys(KeysOf(DropNa(rows, gf), gf), gf))

\* df.groupby(group_fields, dropna=False)["Count"].sum().reset_index():
\* one row per distinct key (a missing value is a key of its own), sorted by key
GroupBySum(rows, gf) == GroupRowsOf(rows, gf, SortKeys(KeysOf(rows, gf), gf))

\* the race code left as it is
RaceDisplay_identity(code) == code

\* grouped["Race"].map(inv).fillna(grouped["Race"]), inv = code -> display
RaceDisplay(code) ==
    IF \E t \in RACE_DISPLAY_TO_CODE : t[2] = code
    THEN (CHOOSE t \in RACE_DISPLAY_TO_CODE : t[2] = code)[1]
    ELSE code

\* round-half-even of num/den (np.round on the quotient); num >= 0, den > 0.
\* The float quotient of the code departs from this at exact ties only for
\* denominators from 80 up.
RoundHalfEven(num, den) ==
    LET q == num \div den
        r == num % den
    IN  IF 2 * r > den THEN q + 1
        ELSE IF 2 * r < den THEN q
        ELSE IF q % 2 = 0 THEN q ELSE q + 1

\* the quotient cut off after one decimal instead of rounded
PercentOf_floor(count, den) == (1000 * count) \div den

\* (Count / den * 100).round(1), in tenths
PercentOf(count, den) == RoundHalfEven(1000 * count, den)

\* a Percent that is not a number (the quotient 0/0 left as it is)
NaNPercent == 0 - 1

PercentCell_unguarded(count, den) == IF den > 0 THEN PercentOf(count, den) ELSE NaNPercent

\* np.where(den > 0, (Count / den * 100).round(1), 0.0)
PercentCell(count, den) == IF den > 0 THEN PercentOf(count, den) ELSE 0

\* the totals row with the share written as a fraction of 1
TotalsTable_fraction(total_population, year_str, county_label, cmap) ==
    [columns |-> <<"County", "Count", "Percent", "Year">>,
     rows |-> << [County |-> CountyLabelMap(county_label, cmap),
                  Count |-> total_population, Percent |-> 10, Year |-> year_str] >>]

\* aggregate_multi with no grouping dimension: one row, the total, 100.0
TotalsTable(total_population, year_str, county_label, cmap) ==
    [columns |-> <<"County", "Count", "Percent", "Year">>,
     rows |-> << [County |-> CountyLabelMap(county_label, cmap),
                  Count |-> total_population, Percent |-> 1000, Year |-> year_str] >>]

\* the denominator key columns of the grouped table
DenomKeys_with_race(gvc) ==
    <<"Year">>
    \o (IF InSeq("County", gvc) THEN <<"County Code">> ELSE <<>>)
    \o (IF InSeq("Region", gvc) THEN <<"Region">> ELSE <<>>)
    \o (IF InSeq("Age", gvc) THEN <<"AgeGroup">> ELSE <<>>)
    \o (IF InSeq("Race", gvc) THEN <<"Race">> ELSE <<>>)

DenomKeys(gvc) ==
    <<"Year">>
    \o (IF InSeq("County", gvc) THEN <<"County Code">> ELSE <<>>)
    \o (IF InSeq("Region", gvc) THEN <<"Region">> ELSE <<>>)
    \o (IF InSeq("Age", gvc) THEN <<"AgeGroup">> ELSE <<>>)

\* grouped.groupby(denom_keys, dropna=False)["Count"].transform("sum"), for row r
DenomOf(rows, keys, r) == SumWhere(rows, keys, KeyOf(r, keys))

RECURSIVE SelectCols(_, _)
SelectCols(order, keep) ==
    IF order = <<>> THEN <<>>
    ELSE IF Head(order) \in keep THEN <<Head(order)>> \o SelectCols(Tail(order), keep)
    ELSE SelectCols(Tail(order), keep)

\* the col_order of the returned table
ColOrder(existing, gf) ==
    LET first == SelectCols(<<"County">>, existing)
                 \o (IF "County Code" \in existing
                     THEN <<"County Code">> \o SelectCols(<<"County Name">>, existing)
                     ELSE <<>>)
        dims == SelectCols(<<"Region", "AgeGroup", "Race", "Ethnicity", "Sex">>,
                           (existing \cap Range(gf)) \ Range(first))
        vals == SelectCols(<<"Count", "Percent", "Year">>, existing)
        sofar == first \o dims \o vals
    IN  sofar \o SelectCols(gf, existing \ Range(sofar))

Project(r, cols) == [c \in Range(cols) |-> r[c]]

\* aggregate_multi, lines 301-309: Race display names, Year, and County as
\* County Code + County Name
NormalizeGrouped(grouped, year_str, cmap) ==
    [j \in DOMAIN grouped |->
        [c \in ((DOMAIN grouped[j] \ {"County"}) \cup {"Year"})
               \cup (IF "County" \in DOMAIN grouped[j] THEN {"County Code", "County Name"} ELSE {}) |->
            IF c = "Year" THEN year_str
            ELSE IF c = "County Code" THEN grouped[j]["County"]
            ELSE IF c = "County Name" THEN CountyNameOf(grouped[j]["County"], cmap)
            ELSE IF c = "Race" THEN RaceDisplay(grouped[j]["Race"])
            ELSE grouped[j][c]]]

\* aggregate_multi, lines 316-318: the Percent column
WithPercent(grouped, denom_keys) ==
    [j \in DOMAIN grouped |->
        WithCol(grouped[j], "Percent",
            PercentCell(grouped[j].Count, DenomOf(grouped, denom_keys, grouped[j])))]

\* aggregate_multi, lines 322-324: the County label when County is no dimension
WithCountyLabel(grouped, gvc, county_label, cmap) ==
    IF ~InSeq("County", gvc)
    THEN [j \in DOMAIN grouped |-> WithCol(grouped[j], "County", CountyLabelMap(county_label, cmap))]
    ELSE grouped

\* list(grouped.columns) at line 326
ExistingColumns(gvc) ==
    ((Range(GroupFields(gvc)) \ {"County"}) \cup {"Count", "Year", "Percent"})
    \cup (IF InSeq("County", gvc) THEN {"County Code", "County Name"} ELSE {"County"})

\* grouped[col_order]
Ordered(grouped, col_order) ==
    [columns |-> col_order,
     rows |-> [j \in DOMAIN grouped |-> Project(grouped[j], col_order)]]

\* aggregate_multi from line 287 on: the grouped table of a frame with the
\* AgeGroup and Region columns attached
GroupedTable(df, gvc, year_str, county_label, cmap) ==
    Ordered(
        WithCountyLabel(
            WithPercent(
                NormalizeGrouped(GroupBySum(df.rows, GroupFields(gvc)), year_str, cmap),
                DenomKeys(gvc)),
            gvc, county_label, cmap),
        ColOrder(ExistingColumns(gvc), GroupFields(gvc)))

\* aggregate_multi with grouping_vars_clean worked out
AggregateClean(df_src, gvc, year_str, county_label, cmap, agegroup_for_backend, cranges, agemap) ==
    IF df_src.rows = <<>> THEN _empty(gvc)
    ELSE IF SumCount(df_src.rows) = 0 THEN _empty(gvc)
    ELSE IF Len(gvc) = 0
    THEN TotalsTable(SumCount(df_src.rows), year_str, county_label, cmap)
    ELSE GroupedTable(
             attach_region_column(
                 attach_agegroup_column(df_src, InSeq("Age", gvc), agegroup_for_backend,
                                        cranges, agemap),
                 cmap),
             gvc, year_str, county_label, cmap)

\* aggregate_multi
aggregate_multi(df_src, gvars, year_str, county_label, cmap, agegroup_for_backend, cranges, agemap) ==
    AggregateClean(df_src, SelectNotAll(gvars), year_str, county_label, cmap,
                   agegroup_for_backend, cranges, agemap)

\* ------------------------------------------------------------------------
\* Upstream loading and filtering (backend_*.py)
\* ------------------------------------------------------------------------
\* backend_region_definitions is imported by backend_filter_apply; its sets are
\* taken to be the region sets of the engine
COLLAR_COUNTIES == COLLAR_SET
URBAN_COUNTIES == URBAN_SET
RURAL_COUNTIES == RURAL_SET

REVERSE_RACE_MAP == RACE_DISPLAY_TO_CODE

\* the columns of a year file
SourceColumns == <<"County", "Race", "Sex", "Ethnicity", "Count", "Age", "Year">>

\* the explicit bracket definitions loaded from the form-control file
agegroup_map_explicit ==
    ("agegroup15" :> <<"Age>=1 AND Age<=4", "Age>=5">>)
    @@ ("agegroup14" :> <<"1-4", "5-13", "Age>=14">>)

UpperAlphabet == "ABCDEFGHIJKLMNOPQRSTUVWXYZ"
LowerAlphabet == "abcdefghijklmnopqrstuvwxyz"

\* str.upper()
RECURSIVE Upper(_)
Upper(s) ==
    IF Len(s) = 0 THEN ""
    ELSE LET k == FindFrom(LowerAlphabet, Head(s), 1)
         IN  (IF k = 0 THEN Head(s) ELSE CharAt(UpperAlphabet, k)) \o Upper(Tail(s))

\* expr.replace(" ", "")
RECURSIVE RemoveBlanks(_)
RemoveBlanks(s) ==
    IF Len(s) = 0 THEN ""
    ELSE (IF Head(s) = " " THEN "" ELSE Head(s)) \o RemoveBlanks(Tail(s))

StartsWith(s, pre) == Len(s) >= Len(pre) /\ SubSeq(s, 1, Len(pre)) = pre

\* re.match(r"^<pre>(\d+)$", s): the number, or <<>>
MatchNumberAfter(s, pre) ==
    IF StartsWith(s, pre) /\ IsDigit(SubSeq(s, Len(pre) + 1, Len(s)))
    THEN Some(DigitsValue(SubSeq(s, Len(pre) + 1, Len(s)), 0))
    ELSE None

\* position of the first occurrence of the text pat in s, 0 when absent
RECURSIVE FindText(_, _, _)
FindText(s, pat, i) ==
    IF i + Len(pat) - 1 > Len(s) THEN 0
    ELSE IF SubSeq(s, i, i + Len(pat) - 1) = pat THEN i
    ELSE FindText(s, pat, i + 1)

\* str.split(pat) for a text separator
RECURSIVE SplitText(_, _)
SplitText(s, pat) ==
    LET i == FindText(s, pat, 1)
    IN  IF i = 0 THEN <<s>>
        ELSE <<SubSeq(s, 1, i - 1)>> \o SplitText(SubSeq(s, i + Len(pat), Len(s)), pat)

\* parse_age_expression, for one row
parse_age_expression(age, expr0) ==
    LET expr == RemoveBlanks(expr0)
        dash == Split(expr, "-")
        eq == MatchNumberAfter(expr, "Age=")
        parts == SplitText(Upper(expr), "AND")
        ge == MatchNumberAfter(Upper(expr), "AGE>=")
        le == MatchNumberAfter(Upper(expr), "AGE<=")
    IN  IF Len(dash) = 2 /\ IsDigit(dash[1]) /\ IsDigit(dash[2])
        THEN age >= DigitsValue(dash[1], 0) /\ age <= DigitsValue(dash[2], 0)
        ELSE IF eq # None THEN age = eq[1]
        ELSE IF FindText(Upper(expr), "AND", 1) # 0
        THEN \A k \in DOMAIN parts :
                 LET g == MatchNumberAfter(Strip(parts[k]), "AGE>=")
                     l == MatchNumberAfter(Strip(parts[k]), "AGE<=")
                 IN  IF g # None THEN age >= g[1]
                     ELSE IF l # None THEN age <= l[1]
                     ELSE TRUE
        ELSE IF ge # None THEN age >= ge[1]
        ELSE IF le # None THEN age <= le[1]
        ELSE FALSE

\* filter_by_custom_age_ranges
filter_by_custom_age_ranges(rows, ranges) ==
    IF rows = <<>> THEN rows
    ELSE SelectSeq(rows, LAMBDA r : \E k \in DOMAIN ranges :
                                        r.Age >= ranges[k][1] /\ r.Age <= ranges[k][2])

\* filter_by_predefined_agegroup
filter_by_predefined_agegroup(rows, exprs) ==
    IF rows = <<>> \/ exprs = <<>> THEN rows
    ELSE SelectSeq(rows, LAMBDA r : \E k \in DOMAIN exprs :
                                        parse_age_expression(r.Age, Strip(exprs[k])))

\* apply_filters, lines 30-32
FilterRace(rows, selected_race) ==
    IF selected_race \notin {"All", ""}
    THEN SelectSeq(rows, LAMBDA r : r.Race =
             (IF \E t \in REVERSE_RACE_MAP : t[1] = selected_race
              THEN (CHOOSE t \in REVERSE_RACE_MAP : t[1] = selected_race)[2]
              ELSE selected_race))
    ELSE rows

\* apply_filters, lines 35-38
FilterEthnicity(rows, selected_ethnicity) ==
    IF selected_ethnicity \in {"Hispanic", "Not Hispanic"}
    THEN SelectSeq(rows, LAMBDA r : r.Ethnicity = selected_ethnicity) ELSE rows

\* apply_filters, lines 41-44
FilterSex(rows, selected_sex) ==
    IF selected_sex \in {"Male", "Female"}
    THEN SelectSeq(rows, LAMBDA r : r.Sex = selected_sex) ELSE rows

\* apply_filters, lines 47-52
FilterRegion(rows, selected_region) ==
    IF selected_region = "Collar Counties"
    THEN SelectSeq(rows, LAMBDA r : r.County \in COLLAR_COUNTIES)
    ELSE IF selected_region = "Urban Counties"
    THEN SelectSeq(rows, LAMBDA r : r.County \in URBAN_COUNTIES)
    ELSE IF selected_region = "Rural Counties"
    THEN SelectSeq(rows, LAMBDA r : r.County \in RURAL_COUNTIES)
    ELSE rows

\* apply_filters, lines 55-61
FilterCounties(rows, selected_counties, cmap) ==
    IF /\ selected_counties # <<>>
       /\ ~InSeq("All", selected_counties)
       /\ Range(selected_counties) \cap DOMAIN cmap # {}
    THEN SelectSeq(rows, LAMBDA r :
             r.County \in {cmap[n] : n \in Range(selected_counties) \cap DOMAIN cmap})
    ELSE rows

\* apply_filters
apply_filters(rows, selected_counties, selected_race, selected_ethnicity, selected_sex, selected_region, cmap) ==
    FilterCounties(
        FilterRegion(
            FilterSex(
                FilterEthnicity(FilterRace(rows, selected_race), selected_ethnicity),
                selected_sex),
            selected_region),
        selected_counties, cmap)

\* process_population_data, lines 60-65: the age filter of one year
FilterAge(rows, selected_agegroup, custom_age_ranges, agemap_explicit) ==
    IF custom_age_ranges # <<>>
    THEN filter_by_custom_age_ranges(rows, custom_age_ranges)
    ELSE IF selected_agegroup # "" /\ selected_agegroup \in DOMAIN agemap_explicit
    THEN filter_by_predefined_agegroup(rows, agemap_explicit[selected_agegroup])
    ELSE rows

\* process_population_data for one selected year: `file` is the year's CSV
\* (<<>> when data/<year> population.csv does not exist, else <<rows>>)
process_population_data(file, year_str, selected_counties, selected_race, selected_ethnicity, selected_sex, selected_region, selected_agegroup, custom_age_ranges, cmap, agemap_explicit) ==
    IF Upper(year_str) = "ALL" \/ file = <<>>
    THEN [columns |-> SourceColumns, rows |-> <<>>]
    ELSE [columns |-> SourceColumns,
          rows |-> FilterAge(
                       apply_filters(file[1], selected_counties, selected_race,
                                     selected_ethnicity, selected_sex, selected_region, cmap),
                       selected_agegroup, custom_age_ranges, agemap_explicit)]

\* ------------------------------------------------------------------------
\* The Generate path of main()
\* ------------------------------------------------------------------------
NoTable == [columns |-> <<>>, rows |-> <<>>]

\* main._county_label_for_all: `A or B if c else C` parses as `(A or B) if c else C`
_county_label_for_all(ch) ==
    IF InSeq("All", ch.selected_counties)
    THEN (IF ch.selected_region # "" THEN ch.selected_region ELSE "All Counties")
    ELSE "Selected Counties"

RegionFilterActive(ch) == ch.selected_region # "" /\ ch.selected_region # "None"

\* df_src["Region"] raises KeyError when the frame has no such column
RegionLookupRaises(df) == ~HasCol(df, "Region")

\* the region filter left to the upstream membership test: no exact match
ExactRegion_superset(df_src, with_region, ch) ==
    IF ~RegionFilterActive(ch) THEN [raised |-> FALSE, frame |-> df_src]
    ELSE IF RegionLookupRaises(with_region) THEN [raised |-> TRUE, frame |-> df_src]
    ELSE [raised |-> FALSE, frame |-> with_region]

\* main.build_block, lines 695-698: the exact region filter; [raised, frame]
ExactRegion(df_src, with_region, ch) ==
    IF ~RegionFilterActive(ch) THEN [raised |-> FALSE, frame |-> df_src]
    ELSE IF RegionLookupRaises(with_region) THEN [raised |-> TRUE, frame |-> df_src]
    ELSE [raised |-> FALSE,
          frame |-> [with_region EXCEPT !.rows =
                        SelectSeq(with_region.rows, LAMBDA r : r.Region = ch.selected_region)]]

\* main.build_block, lines 700-709: the block of the filtered frame
BlockOf(exact, year, label, ch) ==
    [raised |-> exact.raised,
     table |-> IF exact.raised THEN NoTable
               ELSE aggregate_multi(exact.frame, ch.grouping_vars, year, label, counties_map,
                                    ch.agegroup_for_backend,
                                    IF ch.enable_custom_ranges THEN ch.custom_ranges ELSE <<>>,
                                    agegroup_map_implicit)]

\* main.build_block, lines 696-698 on the frame of a year
RegionStep(df_src, ch) == ExactRegion(df_src, attach_region_column(df_src, counties_map), ch)

\* main.build_block, one year of the loop: [raised, table]
BlockOfYear(year, county_list, label, ch, files) ==
    BlockOf(
        RegionStep(
            process_population_data(
                IF year \in DOMAIN files THEN files[year] ELSE <<>>, year, county_list,
                ch.selected_race_code, ch.selected_ethnicity, ch.selected_sex,
                ch.selected_region, ch.agegroup_for_backend,
                IF ch.enable_custom_ranges THEN ch.custom_ranges ELSE <<>>,
                counties_map, agegroup_map_explicit),
            ch),
        year, label, ch)

\* main.build_block, lines 710-711: the non-empty blocks concatenated
ConcatBlocks(b, rest) ==
    IF b.raised \/ rest.raised THEN [raised |-> TRUE, table |-> NoTable]
    ELSE IF b.table.rows = <<>> THEN rest
    ELSE IF rest.table.rows = <<>> THEN b
    ELSE [raised |-> FALSE,
          table |-> [columns |-> b.table.columns,
                     rows |-> b.table.rows \o rest.table.rows]]

\* main.build_block: the non-empty blocks of the selected years, concatenated;
\* pd.DataFrame() when there is none
RECURSIVE build_block(_, _, _, _, _)
build_block(years, county_list, label, ch, files) ==
    IF years = <<>> THEN [raised |-> FALSE, table |-> NoTable]
    ELSE ConcatBlocks(BlockOfYear(Head(years), county_list, label, ch, files),
                      build_block(Tail(years), county_list, label, ch, files))

\* ------------------------------------------------------------------------
\* Key Synthesizer
\* ------------------------------------------------------------------------
\* the characters re.sub(r"[^0-9A-Za-z_\\-]+", "", s) keeps: in the raw string
\* the class holds the digits, the letters, "_", the backslash and "-"
TokenAlphabet == "0123456789ABCDEFGHIJKLMNOPQRSTUVWXYZabcdefghijklmnopqrstuvwxyz_\\-"

TokenChars == {CharAt(TokenAlphabet, i) : i \in 1 .. Len(TokenAlphabet)}

\* the characters \s matches and str.strip() removes
Whitespace == {" ", "\t", "\n"}

RECURSIVE LStripWs(_)
LStripWs(s) == IF Len(s) > 0 /\ Head(s) \in Whitespace THEN LStripWs(Tail(s)) ELSE s

RECURSIVE RStripWs(_)
RStripWs(s) ==
    IF Len(s) > 0 /\ CharAt(s, Len(s)) \in Whitespace
    THEN RStripWs(SubSeq(s, 1, Len(s) - 1)) ELSE s

StripWs(s) == RStripWs(LStripWs(s))

\* re.sub(r"\s+", "_", s)
RECURSIVE SquashWs(_)
SquashWs(s) ==
    IF Len(s) = 0 THEN ""
    ELSE IF Head(s) \in Whitespace THEN "_" \o SquashWs(LStripWs(s))
    ELSE Head(s) \o SquashWs(Tail(s))

\* re.sub(r"[^0-9A-Za-z_\\-]+", "", s)
RECURSIVE KeepTokenChars(_)
KeepTokenChars(s) ==
    IF Len(s) = 0 THEN ""
    ELSE (IF Head(s) \in TokenChars THEN Head(s) ELSE "") \o KeepTokenChars(Tail(s))

\* _normalize_token on the text str(x).  The en and em dash it turns into "-"
\* are no characters of the model's texts, so that step changes nothing here.
_normalize_token(x) == KeepTokenChars(SquashWs(StripWs(x)))

\* add_concatenated_key_dynamic.map_ui_to_col
map_ui_to_col(g) ==
    IF g = "Age" THEN "AgeGroup"
    ELSE IF g = "County" THEN "County Code"
    ELSE g

\* the county identity columns of the key
CountyKeyCols(cols_present) ==
    IF {"County Code", "County Name"} \subseteq cols_present THEN <<"County Code", "County Name">>
    ELSE IF "County" \in cols_present THEN <<"County">>
    ELSE <<>>

\* the loop over group_by: the dimension columns appended to key_cols
RECURSIVE AppendDimCols(_, _, _)
AppendDimCols(group_by, key_cols, cols_present) ==
    IF group_by = <<>> THEN key_cols
    ELSE AppendDimCols(Tail(group_by),
             IF /\ map_ui_to_col(Head(group_by)) \in cols_present
                /\ ~InSeq(map_ui_to_col(Head(group_by)), key_cols)
                /\ map_ui_to_col(Head(group_by)) \notin {"County Code", "County Name", "County"}
             THEN Append(key_cols, map_ui_to_col(Head(group_by)))
             ELSE key_cols,
             cols_present)

\* the key columns with Year put first
KeyCols_year_first(cols_present, group_by) ==
    (IF "Year" \in cols_present THEN <<"Year">> ELSE <<>>)
    \o AppendDimCols(group_by, CountyKeyCols(cols_present), cols_present)

\* key_cols of add_concatenated_key_dynamic
KeyCols(cols_present, group_by) ==
    AppendDimCols(group_by, CountyKeyCols(cols_present), cols_present)
    \o (IF "Year" \in cols_present THEN <<"Year">> ELSE <<>>)

\* out[c].astype(str) of a key column: the code column is numeric (a missing
\* code prints as <NA>), the others hold text
CellText(c, v) ==
    IF c = "County Code" THEN (IF v = NaNCode THEN "<NA>" ELSE ToString(v))
    ELSE v

\* delimiter.join(tokens)
RECURSIVE JoinTokens(_, _)
JoinTokens(tokens, delimiter) ==
    IF tokens = <<>> THEN ""
    ELSE IF Len(tokens) = 1 THEN tokens[1]
    ELSE tokens[1] \o delimiter \o JoinTokens(Tail(tokens), delimiter)

\* the key of one row over key_cols
RowKey(r, key_cols, delimiter) ==
    JoinTokens([i \in DOMAIN key_cols |-> _normalize_token(CellText(key_cols[i], r[key_cols[i]]))],
               delimiter)

\* the filters that may give a prefix token: <<key of selected_filters, column, label prefix>>
PrefixSources ==
    << <<"race", "Race", "">>, <<"ethnicity", "Ethnicity", "">>,
       <<"sex", "Sex", "">>, <<"region", "Region", "Region_">> >>

\* the loop over PrefixSources from index k on
RECURSIVE PrefixTokens(_, _, _)
PrefixTokens(k, cols_present, selected_filters) ==
    IF k > Len(PrefixSources) THEN <<>>
    ELSE (IF /\ PrefixSources[k][2] \notin cols_present
             /\ PrefixSources[k][1] \in DOMAIN selected_filters
             /\ selected_filters[PrefixSources[k][1]] # ""
             /\ Upper(StripWs(selected_filters[PrefixSources[k][1]])) \notin {"ALL", "NONE"}
          THEN << PrefixSources[k][3] \o _normalize_token(selected_filters[PrefixSources[k][1]]) >>
          ELSE <<>>)
         \o PrefixTokens(k + 1, cols_present, selected_filters)

\* the keys left without a prefix
WithPrefix_none(keys, prefix_tokens) == keys

\* the last lines of add_concatenated_key_dynamic: the prefix put before every key
WithPrefix(keys, prefix_tokens) ==
    IF prefix_tokens = <<>> THEN keys
    ELSE [i \in DOMAIN keys |->
             JoinTokens(prefix_tokens, "_")
             \o (IF \E j \in DOMAIN keys : keys[j] # "" THEN "_" ELSE "")
             \o keys[i]]

\* the key columns of the frame turned into text (out[c] = out[c].astype(str))
KeyColsAsText(df, key_cols) ==
    [columns |-> df.columns,
     rows |-> [i \in DOMAIN df.rows |->
                  [c \in DOMAIN df.rows[i] |->
                      IF InSeq(c, key_cols) THEN CellText(c, df.rows[i][c]) ELSE df.rows[i][c]]]]

\* add_concatenated_key_dynamic with key_cols worked out
KeyedFrame(df, key_cols, selected_filters, delimiter) ==
    AddCol(KeyColsAsText(df, key_cols), "ConcatenatedKey",
        WithPrefix([i \in DOMAIN df.rows |-> RowKey(df.rows[i], key_cols, delimiter)],
                   PrefixTokens(1, Range(df.columns), selected_filters)))

\* add_concatenated_key_dynamic
add_concatenated_key_dynamic(df, selected_filters, delimiter) ==
    IF df.rows = <<>> THEN df
    ELSE KeyedFrame(df,
             KeyCols(Range(df.columns),
                     IF "group_by" \in DOMAIN selected_filters THEN selected_filters["group_by"] ELSE <<>>),
             selected_filters, delimiter)

\* ------------------------------------------------------------------------
\* The report of one Generate
\* ------------------------------------------------------------------------
\* ensure_county_names, line 183-184: 'County Name' added from 'County Code'
WithCountyName(df, cmap) ==
    IF HasCol(df, "County Code") /\ ~HasCol(df, "County Name")
    THEN AddCol(df, "County Name",
                [i \in DOMAIN df.rows |-> CountyNameOf(df.rows[i]["County Code"], cmap)])
    ELSE df

\* ensure_county_names, lines 185-192: the 'County' labels of a report (text cells)
WithCountyMapped(df, cmap) ==
    IF HasCol(df, "County")
    THEN [df EXCEPT !.rows = [i \in DOMAIN df.rows |->
             [df.rows[i] EXCEPT !["County"] = CountyLabelMap(df.rows[i]["County"], cmap)]]]
    ELSE df

\* ensure_county_names
ensure_county_names(df, cmap) ==
    IF df.rows = <<>> THEN df ELSE WithCountyMapped(WithCountyName(df, cmap), cmap)

\* render_sidebar_controls, selected_race_code of the returned dict
RaceCodeOf(selected_race_display) ==
    IF selected_race_display = "All" THEN "All"
    ELSE IF \E t \in RACE_DISPLAY_TO_CODE : t[1] = selected_race_display
    THEN (CHOOSE t \in RACE_DISPLAY_TO_CODE : t[1] = selected_race_display)[2]
    ELSE selected_race_display

\* main, lines 664-673: st.session_state.selected_filters (the entries the key reads,
\* and the years and counties)
SelectedFilters(ch) ==
    [years |-> ch.selected_years, counties |-> ch.selected_counties,
     race |-> ch.selected_race_display, ethnicity |-> ch.selected_ethnicity,
     sex |-> ch.selected_sex, region |-> ch.selected_region,
     group_by |-> ch.grouping_vars]

\* main, lines 714-715: the combined block
CombinedBlock(ch, files) ==
    IF InSeq("All", ch.selected_counties)
    THEN build_block(ch.selected_years, <<"All">>, _county_label_for_all(ch), ch, files)
    ELSE build_block(ch.selected_years, ch.selected_counties, "Selected Counties", ch, files)

\* main, lines 718-720: one block per selected county
RECURSIVE BreakdownBlocks(_, _, _)
BreakdownBlocks(counties, ch, files) ==
    IF counties = <<>> THEN [raised |-> FALSE, table |-> NoTable]
    ELSE ConcatBlocks(build_block(ch.selected_years, <<Head(counties)>>, Head(counties), ch, files),
                      BreakdownBlocks(Tail(counties), ch, files))

\* the breakdown blocks put before the combined block
AllFrames_breakdown_first(ch, files) ==
    IF ch.include_breakdown /\ ~InSeq("All", ch.selected_counties)
    THEN ConcatBlocks(BreakdownBlocks(ch.selected_counties, ch, files), CombinedBlock(ch, files))
    ELSE CombinedBlock(ch, files)

\* main, lines 713-721: all_frames concatenated
AllFrames(ch, files) ==
    IF ch.include_breakdown /\ ~InSeq("All", ch.selected_counties)
    THEN ConcatBlocks(CombinedBlock(ch, files), BreakdownBlocks(ch.selected_counties, ch, files))
    ELSE CombinedBlock(ch, files)

\* main, lines 727-730: ConcatenatedKey moved to the front
KeyFirst(df) ==
    IF HasCol(df, "ConcatenatedKey")
    THEN [df EXCEPT !.columns = <<"ConcatenatedKey">>
                                \o SelectSeq(df.columns, LAMBDA c : c # "ConcatenatedKey")]
    ELSE df

\* main, lines 723-730 on the concatenated frames
ReportOf(frame, selected_filters) ==
    IF ensure_county_names(frame, counties_map).rows = <<>>
    THEN ensure_county_names(frame, counties_map)
    ELSE KeyFirst(add_concatenated_key_dynamic(ensure_county_names(frame, counties_map),
                                               selected_filters, "_"))

\* ------------------------------------------------------------------------
\* Pivot Builder (build_pivot_table with at least one row dimension and at
\* most one column dimension present)
\* ------------------------------------------------------------------------
\* A Count cell is an integer.  A Percent cell is the exact quotient <<n, d>>
\* in lowest terms, in tenths of a percent: 20.0 is <<200, 1>>, 15.825 is
\* <<633, 4>>.  A float of the code that is no multiple of 0.1 is such a
\* quotient with d > 1.
RECURSIVE GCD(_, _)
GCD(a, b) == IF b = 0 THEN a ELSE GCD(b, a % b)

Ratio(n, d) == IF n = 0 THEN <<0, 1>> ELSE <<n \div GCD(n, d), d \div GCD(n, d)>>

\* Series.round(1) of a Percent cell
RoundCell(q) == <<RoundHalfEven(q[1], q[2]), 1>>

\* lines 398-399: the dimensions that are columns of the frame
PivotDims(dims, df) == SelectSeq(dims, LAMBDA d : HasCol(df, d))

\* the values of a set of texts in ascending order
RECURSIVE SortedTexts(_)
SortedTexts(S) ==
    IF S = {} THEN <<>>
    ELSE <<CHOOSE x \in S : \A y \in S \ {x} : StrLess(x, y)>>
         \o SortedTexts(S \ {CHOOSE x \in S : \A y \in S \ {x} : StrLess(x, y)})

\* the labels of one axis of pd.pivot_table: the sorted values of the
\* dimension, then margins_name when margins are on
AxisLabels(df, dims, margins) ==
    IF dims = <<>> THEN <<>>
    ELSE SortedTexts({df.rows[i][dims[1]] : i \in DOMAIN df.rows})
         \o (IF margins THEN <<"Total">> ELSE <<>>)

\* the sorted values of one dimension
DimValues(df, d) == SortedTexts({df.rows[i][d] : i \in DOMAIN df.rows})

\* every label of `labels` put before every key of `tails`, in order
PrefixEach(labels, tails) ==
    [k \in 1 .. Len(labels) * Len(tails) |->
        <<labels[((k - 1) \div Len(tails)) + 1]>> \o tails[((k - 1) % Len(tails)) + 1]]

\* dropna=False: the index of more than one dimension is reindexed to the
\* cartesian product of its levels, in sorted order
RECURSIVE KeyProduct(_)
KeyProduct(axes) ==
    IF axes = <<>> THEN << <<>> >> ELSE PrefixEach(Head(axes), KeyProduct(Tail(axes)))

\* the key of the margin row: margins_name, padded with "" on the other levels
TotalKey(n) == [j \in 1 .. n |-> IF j = 1 THEN "Total" ELSE ""]

\* the row keys of pd.pivot_table: one tuple of values per row, then the margin
RowKeys(df, use_rows, margins) ==
    KeyProduct([j \in DOMAIN use_rows |-> DimValues(df, use_rows[j])])
    \o (IF margins THEN <<TotalKey(Len(use_rows))>> ELSE <<>>)

\* the source rows of the cell (rk, ck); a margin takes every value of its axis
CellRows(df, use_rows, cols, rk, ck) ==
    SelectSeq(df.rows, LAMBDA r :
        /\ (rk = TotalKey(Len(use_rows)) \/ \A j \in DOMAIN use_rows : r[use_rows[j]] = rk[j])
        /\ (cols = <<>> \/ ck = "Total" \/ r[cols[1]] = ck))

RECURSIVE LargestCount(_)
LargestCount(rows) ==
    IF Len(rows) = 1 THEN rows[1].Count ELSE Max(rows[1].Count, LargestCount(Tail(rows)))

\* aggfunc=agg_count over the Count of the cell's rows, fill_value=0 for no row
CountCell(rows, agg_count) ==
    IF rows = <<>> THEN 0
    ELSE IF agg_count = "max" THEN LargestCount(rows)
    ELSE SumCount(rows)

RECURSIVE SumPctNum(_)
SumPctNum(rows) ==
    IF rows = <<>> THEN 0 ELSE rows[1].Percent * rows[1].Count + SumPctNum(Tail(rows))

RECURSIVE SumPercent(_)
SumPercent(rows) == IF rows = <<>> THEN 0 ELSE rows[1].Percent + SumPercent(Tail(rows))

\* lines 419-428 for one cell whose num and den share their label:
\* (sum of Percent*Count/100) / (sum of Count) * 100, NaN filled with 0
WeightedCell(rows) == IF SumCount(rows) = 0 THEN <<0, 1>> ELSE Ratio(SumPctNum(rows), SumCount(rows))

\* lines 430-432 for one cell: the mean of Percent, fill_value=0 for no row
MeanCell(rows) == IF rows = <<>> THEN <<0, 1>> ELSE Ratio(SumPercent(rows), Len(rows))

Weighted(percent_mode) == StartsWith(percent_mode, "Weighted")

\* the column labels of the Count piece: the column axis, or the value's name
\* when there is no column dimension
CountLabels(df, cols, margins) ==
    IF cols = <<>> THEN <<"Count">> ELSE AxisLabels(df, cols, margins)

\* the column labels of the Percent piece.  With no column dimension num has
\* the one column __pct_num and den the one column Count, and num / den
\* aligns them to the two columns Count and __pct_num
PercentLabels(df, cols, margins, percent_mode) ==
    IF cols # <<>> THEN AxisLabels(df, cols, margins)
    ELSE IF Weighted(percent_mode) THEN <<"Count", "__pct_num">>
    ELSE <<"Percent">>

\* one cell of the Percent piece; a column that only one of num and den has is
\* NaN after the division and 0 after fillna(0)
PivotPercentCell(df, use_rows, cols, rk, label, percent_mode) ==
    IF ~Weighted(percent_mode) THEN MeanCell(CellRows(df, use_rows, cols, rk, label))
    ELSE IF cols = <<>> THEN <<0, 1>>
    ELSE WeightedCell(CellRows(df, use_rows, cols, rk, label))

\* lines 405-434: the names of the pieces built
Pieces(df, values) ==
    (IF InSeq("Count", values) /\ HasCol(df, "Count") THEN <<"Count">> ELSE <<>>)
    \o (IF InSeq("Percent", values) /\ HasCol(df, "Percent") THEN <<"Percent">> ELSE <<>>)

\* the name of a column of the pivot: the label alone for one piece; for two
\* pieces the flattened pair, or the pair itself (written as Python prints it)
ColumnName(piece, label, two, flatten) ==
    IF ~two THEN label
    ELSE IF flatten THEN piece \o " | " \o label
    ELSE "('" \o piece \o "', '" \o label \o "')"

\* reset_index: the name of a row dimension's column
IndexName(dim, two, flatten) ==
    IF two /\ ~flatten THEN "('" \o dim \o "', '')" ELSE dim

\* lines 456-461: a column is rounded when its name is a str that holds "Percent"
Rounded(name, two, flatten) == (~two \/ flatten) /\ FindText(name, "Percent", 1) # 0

\* the columns of one piece, in order
PieceColumns(piece, labels, two, flatten) ==
    [i \in DOMAIN labels |-> ColumnName(piece, labels[i], two, flatten)]

\* the label of a column of a piece
LabelOf(name, piece, labels, two, flatten) ==
    CHOOSE l \in Range(labels) : ColumnName(piece, l, two, flatten) = name

\* one cell of the pivot, rounded where the rounding loop reaches it
PivotCell(df, use_rows, cols, rk, piece, label, agg_count, percent_mode, round) ==
    IF piece = "Count" THEN CountCell(CellRows(df, use_rows, cols, rk, label), agg_count)
    ELSE IF round THEN RoundCell(PivotPercentCell(df, use_rows, cols, rk, label, percent_mode))
    ELSE PivotPercentCell(df, use_rows, cols, rk, label, percent_mode)

\* the columns of the pivot after reset_index
PivotColumns(index_names, count_cols, percent_cols) == index_names \o count_cols \o percent_cols

\* one row of the pivot
PivotRow(df, use_rows, cols, rk, index_names, count_cols, clabels, percent_cols, plabels, two, flatten, agg_count, percent_mode) ==
    [c \in Range(index_names) \cup Range(count_cols) \cup Range(percent_cols) |->
        IF c \in Range(index_names) THEN rk[CHOOSE j \in DOMAIN index_names : index_names[j] = c]
        ELSE IF c \in Range(count_cols)
        THEN PivotCell(df, use_rows, cols, rk, "Count",
                       LabelOf(c, "Count", clabels, two, flatten), agg_count, percent_mode, FALSE)
        ELSE PivotCell(df, use_rows, cols, rk, "Percent",
                       LabelOf(c, "Percent", plabels, two, flatten), agg_count, percent_mode,
                       Rounded(c, two, flatten))]

\* the pivot over the row keys
PivotFrame(df, use_rows, cols, row_labels, index_names, count_cols, clabels, percent_cols, plabels, two, flatten, agg_count, percent_mode) ==
    [columns |-> PivotColumns(index_names, count_cols, percent_cols),
     rows |-> [k \in DOMAIN row_labels |->
                  PivotRow(df, use_rows, cols, row_labels[k], index_names, count_cols, clabels,
                           percent_cols, plabels, two, flatten, agg_count, percent_mode)]]

\* the value a cell is sorted by, as a quotient: the sort comes before the rounding
SortValue(df, use_rows, cols, rk, piece, label, agg_count, percent_mode) ==
    IF piece = "Count" THEN <<CountCell(CellRows(df, use_rows, cols, rk, label), agg_count), 1>>
    ELSE PivotPercentCell(df, use_rows, cols, rk, label, percent_mode)

\* the values of one row under by=list(sort_key.columns), in that order
SortKeyOf(df, use_rows, cols, rk, piece, labels, agg_count, percent_mode) ==
    [i \in DOMAIN labels |-> SortValue(df, use_rows, cols, rk, piece, labels[i], agg_count, percent_mode)]

RatioLess(a, b) == a[1] * b[2] < b[1] * a[2]

\* ascending=False over several columns: the first column that differs decides
RECURSIVE SortAbove(_, _)
SortAbove(a, b) ==
    IF a = <<>> THEN FALSE
    ELSE IF a[1] = b[1] THEN SortAbove(Tail(a), Tail(b))
    ELSE RatioLess(b[1], a[1])

\* the place of row i after the sort; rows of equal values keep their order
RowRank(keys, i) ==
    1 + Cardinality({j \in DOMAIN keys : SortAbove(keys[j], keys[i]) \/ (keys[j] = keys[i] /\ j < i)})

\* DataFrame.sort_values(by=..., ascending=False) on the rows with these keys
sort_values(row_keys, keys) ==
    [p \in DOMAIN row_keys |-> row_keys[CHOOSE i \in DOMAIN keys : RowRank(keys, i) = p]]

\* the labels of the only piece
PieceLabels(df, cols, piece, margins, percent_mode) ==
    IF piece = "Count" THEN CountLabels(df, cols, margins)
    ELSE PercentLabels(df, cols, margins, percent_mode)

\* lines 438-447.  One piece: sort_key is the pivot and the rows are sorted by
\* all its columns in their order.  Two pieces: sort_key is pivot["Count"],
\* whose column labels are no labels of the two-level pivot, sort_values
\* raises, the except clause passes and the rows stay as they were
SortedRowKeys(df, use_rows, cols, pieces, row_keys, agg_count, percent_mode, margins, sort_rows) ==
    IF ~sort_rows \/ Len(pieces) # 1 THEN row_keys
    ELSE sort_values(row_keys,
             [k \in DOMAIN row_keys |->
                 SortKeyOf(df, use_rows, cols, row_keys[k], pieces[1],
                           PieceLabels(df, cols, pieces[1], margins, percent_mode),
                           agg_count, percent_mode)])

\* _single_pivot with the pieces worked out
PivotOfPieces(df, use_rows, cols, pieces, agg_count, percent_mode, margins, flatten, sort_rows) ==
    PivotFrame(df, use_rows, cols,
               SortedRowKeys(df, use_rows, cols, pieces, RowKeys(df, use_rows, margins),
                             agg_count, percent_mode, margins, sort_rows),
               [j \in DOMAIN use_rows |-> IndexName(use_rows[j], Len(pieces) = 2, flatten)],
               IF InSeq("Count", pieces)
               THEN PieceColumns("Count", CountLabels(df, cols, margins), Len(pieces) = 2, flatten)
               ELSE <<>>,
               CountLabels(df, cols, margins),
               IF InSeq("Percent", pieces)
               THEN PieceColumns("Percent", PercentLabels(df, cols, margins, percent_mode),
                                 Len(pieces) = 2, flatten)
               ELSE <<>>,
               PercentLabels(df, cols, margins, percent_mode),
               Len(pieces) = 2, flatten, agg_count, percent_mode)

\* build_pivot_table._single_pivot
_single_pivot(df, use_rows, cols, values, agg_count, percent_mode, margins, flatten, sort_rows) ==
    IF Pieces(df, values) = <<>> THEN NoTable
    ELSE PivotOfPieces(df, use_rows, cols, Pieces(df, values), agg_count, percent_mode,
                       margins, flatten, sort_rows)

\* pv.insert(0, "PivotRowDim", rv)
TaggedBlock(pv, tag, rv) ==
    [columns |-> <<tag>> \o pv.columns,
     rows |-> [k \in DOMAIN pv.rows |-> WithCol(pv.rows[k], tag, rv)]]

\* the columns of the second frame the first has not
NewColumns(a, b) == SelectSeq(b.columns, LAMBDA c : ~InSeq(c, a.columns))

\* a row on the columns of the concatenation, NaN where it has no cell
Reindexed(r, columns) == [c \in Range(columns) |-> IF c \in DOMAIN r THEN r[c] ELSE NaN]

\* pd.concat([a, b], ignore_index=True): the union of the columns in the order
\* they first appear, the rows of a then those of b
ConcatFrames(a, b) ==
    [columns |-> a.columns \o NewColumns(a, b),
     rows |-> [k \in 1 .. Len(a.rows) + Len(b.rows) |->
                  Reindexed(IF k <= Len(a.rows) THEN a.rows[k] ELSE b.rows[k - Len(a.rows)],
                            a.columns \o NewColumns(a, b))]]

\* lines 463-470: one pivot per row dimension, tagged, the blocks concatenated
RECURSIVE StackedPivot(_, _, _, _, _, _, _, _, _, _)
StackedPivot(df, rows, cols, values, agg_count, percent_mode, margins, flatten, sort_rows, acc) ==
    IF rows = <<>> THEN acc
    ELSE StackedPivot(df, Tail(rows), cols, values, agg_count, percent_mode, margins, flatten,
             sort_rows,
             ConcatFrames(acc,
                 TaggedBlock(_single_pivot(df, <<Head(rows)>>, cols, values, agg_count,
                                           percent_mode, margins, flatten, sort_rows),
                             IndexName("PivotRowDim", Len(Pieces(df, values)) = 2, flatten),
                             Head(rows))))

\* one pivot on all the row dimensions, whatever append_per_row_var says
build_pivot_table_unstacked(df, rows, cols, values, agg_count, percent_mode, margins, flatten, sort_rows, append_per_row_var) ==
    IF df.rows = <<>> \/ values = <<>> THEN NoTable
    ELSE _single_pivot(df, PivotDims(rows, df), PivotDims(cols, df), values, agg_count,
                       percent_mode, margins, flatten, sort_rows)

\* build_pivot_table
build_pivot_table(df, rows, cols, values, agg_count, percent_mode, margins, flatten, sort_rows, append_per_row_var) ==
    IF df.rows = <<>> \/ values = <<>> THEN NoTable
    ELSE IF append_per_row_var /\ Len(PivotDims(rows, df)) > 1
    THEN IF Pieces(df, values) = <<>> THEN NoTable
         ELSE StackedPivot(df, PivotDims(rows, df), PivotDims(cols, df), values, agg_count,
                           percent_mode, margins, flatten, sort_rows, NoTable)
    ELSE _single_pivot(df, PivotDims(rows, df), PivotDims(cols, df), values, agg_count,
                       percent_mode, margins, flatten, sort_rows)

\* a dimension that is a row and a column of the pivot: lines 398-399 keep it
\* on both axes
PivotConflict(df, rows, cols) ==
    \E d \in Range(PivotDims(rows, df)) : InSeq(d, PivotDims(cols, df))

\* pd.pivot_table is then called with the same key twice; depending on the
\* pandas at hand it raises (the frame cut to the keys has the column twice)
\* or crosses the dimension with itself
PivotMayRaise(df, rows, cols, values) ==
    df.rows # <<>> /\ Pieces(df, values) # <<>> /\ PivotConflict(df, rows, cols)

\* add_concatenated_key_for_pivot, the loop over rows_used
RECURSIVE AppendRowCols(_, _, _)
AppendRowCols(rows_used, key_cols, cols_present) ==
    IF rows_used = <<>> THEN key_cols
    ELSE AppendRowCols(Tail(rows_used),
             IF Head(rows_used) \in cols_present /\ ~InSeq(Head(rows_used), key_cols)
             THEN Append(key_cols, Head(rows_used))
             ELSE key_cols,
             cols_present)

\* key_cols of add_concatenated_key_for_pivot
PivotKeyCols(cols_present, rows_used) ==
    AppendRowCols(rows_used, CountyKeyCols(cols_present), cols_present)
    \o (IF "Year" \in cols_present
           /\ ~InSeq("Year", AppendRowCols(rows_used, CountyKeyCols(cols_present), cols_present))
        THEN <<"Year">> ELSE <<>>)

\* add_concatenated_key_for_pivot with key_cols worked out: the key columns cast
\* to text, the key of every row appended as the last column
KeyedPivot(df, key_cols) ==
    AddCol(KeyColsAsText(df, key_cols), "ConcatenatedKey",
           [i \in DOMAIN df.rows |-> RowKey(df.rows[i], key_cols, "_")])

\* add_concatenated_key_for_pivot
add_concatenated_key_for_pivot(pivot_df, selected_filters, rows_used) ==
    IF pivot_df.rows = <<>> THEN pivot_df
    ELSE KeyedPivot(pivot_df, PivotKeyCols(Range(pivot_df.columns), rows_used))

\* main, lines 733-753: the pivot preview stored in the session
PivotPreview(report_df, ch, selected_filters) ==
    IF ch.pivot_enable /\ report_df.rows # <<>>
    THEN add_concatenated_key_for_pivot(
             build_pivot_table(report_df, ch.pivot_rows, ch.pivot_cols, ch.pivot_vals,
                               ch.pivot_agg, ch.pivot_pct_mode, ch.pivot_totals,
                               ch.pivot_flatten, ch.pivot_sort_rows, ch.pivot_append_mode),
             selected_filters, ch.pivot_rows)
    ELSE NoTable

\* ------------------------------------------------------------------------
\* Inputs of the model
\* ------------------------------------------------------------------------
\* county codes of the records: Cook, a code in no region set, a missing county
Counties == {31, 2, NaNCode}
Races == {"White", "Black"}
Sexes == {"Male"}
Ethnicities == {"Hispanic"}
Ages == {1, 12}
RaceCodes == <<"AIAN", "Asian", "Black", "NHOPI", "TOM", "White">>

Records ==
    [County : Counties, Race : Races, Sex : Sexes, Ethnicity : Ethnicities,
     Count : 0 .. MaxCount, Age : Ages, Year : {"2020"}]

\* a year file with one record per race code, all of one county, sex and age
RaceTables ==
    { [i \in DOMAIN RaceCodes |->
          [County |-> 31, Race |-> RaceCodes[i], Sex |-> "Male", Ethnicity |-> "Hispanic",
           Count |-> cnt[i], Age |-> 1, Year |-> "2020"]] :
      cnt \in [DOMAIN RaceCodes -> 1 .. MaxCount] }

\* the two records of the end-to-end example of the specification
EndToEndRows ==
    << [County |-> 1, Race |-> "White", Sex |-> "Male", Ethnicity |-> "Hispanic",
        Count |-> 100, Age |-> 1, Year |-> "2020"],
       [County |-> 1, Race |-> "Black", Sex |-> "Male", Ethnicity |-> "Hispanic",
        Count |-> 50, Age |-> 1, Year |-> "2020"] >>

InputRows ==
    (UNION {[1 .. k -> Records] : k \in 0 .. MaxRecords}) \cup RaceTables \cup {EndToEndRows}

GroupTokens == {"All", "Age", "Race", "Ethnicity", "Sex", "Region", "County"}

\* the multiselect returns distinct options in the order they were picked
Groupings ==
    {g \in UNION {[1 .. k -> GroupTokens] : k \in 0 .. MaxDims} :
        \A i, j \in DOMAIN g : i # j => g[i] # g[j]}

\* <<agegroup_for_backend, custom_ranges>>
AgeModes ==
    { <<"", <<>>>>, <<"agegroup15", <<>>>>, <<"", << <<1, 5>>, <<6, 10>> >> >> }

\* the records of the Generate path: Cook, a collar, an urban, a rural county
\* and a code in no region set
GenCounties == {31, 43, 19, 1, 2}

GenRecords ==
    [County : GenCounties, Race : Races, Sex : Sexes, Ethnicity : Ethnicities,
     Count : 1 .. MaxCount, Age : {1}, Year : {"2020"}]

GenRows == UNION {[1 .. k -> GenRecords] : k \in 0 .. MaxRecords}

GenGroupings == { <<"All">>, <<"Race">>, <<"Region">>, <<"County">> }

RegionOptions == {"None", "Cook County", "Collar Counties", "Urban Counties", "Rural Counties"}

\* the sidebar's choices before anything is picked (the widgets' defaults)
DefaultChoices ==
    [selected_years |-> <<"2020">>, selected_counties |-> <<"All">>,
     selected_race_display |-> "All", selected_race_code |-> "All",
     selected_ethnicity |-> "All", selected_sex |-> "All",
     selected_region |-> "None", agegroup_for_backend |-> "",
     enable_custom_ranges |-> FALSE, custom_ranges |-> <<>>,
     grouping_vars |-> <<"All">>, include_breakdown |-> TRUE, pivot_enable |-> FALSE,
     pivot_rows |-> <<"AgeGroup">>, pivot_cols |-> <<"Race">>, pivot_vals |-> <<"Count">>,
     pivot_agg |-> "sum", pivot_pct_mode |-> "Weighted by Count (rows)",
     pivot_totals |-> TRUE, pivot_flatten |-> TRUE, pivot_sort_rows |-> FALSE,
     pivot_export_mode |-> "Both", pivot_append_mode |-> FALSE]

\* ------------------------------------------------------------------------
\* State
\* ------------------------------------------------------------------------
VARIABLES
    df_source,      \* the records handed to aggregate_multi
    data_files,     \* the data folder: year -> <<>> (no file) or <<rows of the CSV>>
    choices,        \* the dict returned by render_sidebar_controls
    session_state,  \* st.session_state: the widgets' values by key
    out,            \* the table returned by the last call
    pc              \* "ready", "rendered", "returned", "raised"

vars == <<df_source, data_files, choices, session_state, out, pc>>

\* the session before any widget was touched: the multiselect's default
\* and the setdefault calls of main (empty report, empty pivot, no filters)
DefaultSession ==
    [ui_grouping_vars |-> <<"All">>, report_df |-> NoTable, pivot_df |-> NoTable,
     selected_filters |-> <<>>]

NoFrame == [columns |-> SourceColumns, rows |-> <<>>]

Init ==
    /\ \E rows \in InputRows : df_source = [columns |-> SourceColumns, rows |-> rows]
    /\ data_files = <<>>
    /\ choices = DefaultChoices
    /\ session_state = DefaultSession
    /\ out = NoTable
    /\ pc = "ready"

\* one call of aggregate_multi with the sidebar's choices; the age settings are
\* read only when Age is a grouping dimension (attach_agegroup_column returns
\* before them otherwise)
Aggregate ==
    /\ pc = "ready"
    /\ \E g \in Groupings, m \in AgeModes :
        /\ (~InSeq("Age", g) => m = <<"", <<>>>>)
        /\ choices' = [choices EXCEPT !.grouping_vars = g,
                                      !.agegroup_for_backend = m[1],
                                      !.enable_custom_ranges = (m[2] # <<>>),
                                      !.custom_ranges = m[2]]
        /\ out' = aggregate_multi(df_source, g, "2020", "All Counties", counties_map,
                                  m[1], m[2], agegroup_map_implicit)
    /\ pc' = "returned"
    /\ UNCHANGED <<df_source, data_files, session_state>>

Next == Aggregate

Spec == Init /\ [][Next]_vars

\* the Generate path: a data folder and a filled-in sidebar
InitGen ==
    /\ df_source = NoFrame
    /\ \E f \in {<<>>} \cup {<<rows>> : rows \in GenRows} : data_files = ("2020" :> f)
    /\ \E reg \in RegionOptions, race \in {"All", "White"}, g \in GenGroupings,
          cs \in {<<"All">>, <<"Cook">>} :
          choices = [DefaultChoices EXCEPT !.selected_region = reg,
                                           !.selected_race_display = race,
                                           !.selected_race_code = race,
                                           !.grouping_vars = g,
                                           !.selected_counties = cs]
    /\ session_state = DefaultSession
    /\ out = NoTable
    /\ pc = "ready"

\* the block is stored, or the exception of build_block ends the run
Deliver(b) ==
    /\ out' = b.table
    /\ pc' = IF b.raised THEN "raised" ELSE "returned"

\* main, lines 713-715: the combined block of one Generate
BuildCombined ==
    /\ pc = "ready"
    /\ Deliver(IF InSeq("All", choices.selected_counties)
               THEN build_block(choices.selected_years, <<"All">>,
                                _county_label_for_all(choices), choices, data_files)
               ELSE build_block(choices.selected_years, choices.selected_counties,
                                "Selected Counties", choices, data_files))
    /\ UNCHANGED <<df_source, data_files, session_state, choices>>

NextGen == BuildCombined

SpecGen == InitGen /\ [][NextGen]_vars

\* the Bracket Resolver alone: a column of age codes and an age setting
MaxRanges == 2

AgeRow(a) ==
    [County |-> 31, Race |-> "White", Sex |-> "Male", Ethnicity |-> "Hispanic",
     Count |-> 1, Age |-> a, Year |-> "2020"]

\* one row of any code (0 and 19 are no age codes), or one row of every code
AgeFrames ==
    {<<AgeRow(a)>> : a \in (MinAgeCode - 1) .. (MaxAgeCode + 1)}
    \cup {[a \in MinAgeCode .. MaxAgeCode |-> AgeRow(a)]}

RangeEnds == {0, 1, 5, 6, 10, 19}

CustomRangeChoices == UNION {[1 .. k -> RangeEnds \X RangeEnds] : k \in 1 .. MaxRanges}

BracketNames == {"", "agegroup14", "agegroup15", "agegroup13"}

InitAge ==
    /\ \E rows \in AgeFrames : df_source = [columns |-> SourceColumns, rows |-> rows]
    /\ data_files = <<>>
    /\ choices = DefaultChoices
    /\ session_state = DefaultSession
    /\ out = NoTable
    /\ pc = "ready"

\* one call of attach_agegroup_column with Age as a grouping dimension
ResolveAgeBuckets ==
    /\ pc = "ready"
    /\ \E m \in {<<n, <<>>>> : n \in BracketNames} \cup {<<"", c>> : c \in CustomRangeChoices} :
        /\ choices' = [choices EXCEPT !.grouping_vars = <<"Age">>,
                                      !.agegroup_for_backend = m[1],
                                      !.enable_custom_ranges = (m[2] # <<>>),
                                      !.custom_ranges = m[2]]
        /\ out' = attach_agegroup_column(df_source, TRUE, m[1], m[2], agegroup_map_implicit)
    /\ pc' = "returned"
    /\ UNCHANGED <<df_source, data_files, session_state>>

NextAge == ResolveAgeBuckets

SpecAge == InitAge /\ [][NextAge]_vars

\* ------------------------------------------------------------------------
\* Properties
\* ------------------------------------------------------------------------
Returned == pc = "returned"

Requested == SelectNotAll(choices.grouping_vars)

InputTotal == SumCount(df_source.rows)

Abs(n) == IF n < 0 THEN 0 - n ELSE n

\* the columns of the output that make up the denominator key-set of the
\* specification: Year, and County / Region / AgeBucket when requested
PartitionCols ==
    {"Year"}
    \cup (IF InSeq("County", Requested) THEN {"County Code"} ELSE {})
    \cup (IF InSeq("Region", Requested) THEN {"Region"} ELSE {})
    \cup (IF InSeq("Age", Requested) THEN {"AgeGroup"} ELSE {})

\* the output rows in the partition of output row j
PartitionOf(j) ==
    {k \in DOMAIN out.rows : \A c \in PartitionCols : out.rows[k][c] = out.rows[j][c]}

RECURSIVE SumField(_, _)
SumField(J, f) ==
    IF J = {} THEN 0
    ELSE LET k == CHOOSE k \in J : TRUE IN out.rows[k][f] + SumField(J \ {k}, f)

\* C1: the Count of the returned rows adds up to the Count of the input records
C1_CountConserved == Returned => SumCount(out.rows) = InputTotal

C1_Witness ==
    /\ Returned
    /\ InSeq("Region", Requested)
    /\ Len(out.rows) >= 2
    /\ \E j \in DOMAIN out.rows : out.rows[j].Region = NaN /\ out.rows[j].Count > 0

\* C2 as stated: the Percent values of one partition add up to 100.0 within 0.1
C2_PercentSumsTo100 ==
    (Returned /\ df_source.rows # <<>>) =>
        \A j \in DOMAIN out.rows : Abs(SumField(PartitionOf(j), "Percent") - 1000) <= 1

\* C2 as amended: the Percent values of a partition of n rows whose Count is
\* positive add up to 100.0 within 0.05 * n, and those of a partition whose
\* Count is zero add up to 0.0
C2_PercentSumWithinRounding ==
    Returned =>
        \A j \in DOMAIN out.rows :
            IF SumField(PartitionOf(j), "Count") > 0
            THEN 2 * Abs(SumField(PartitionOf(j), "Percent") - 1000) <= Cardinality(PartitionOf(j))
            ELSE SumField(PartitionOf(j), "Percent") = 0

C2_Witness ==
    /\ Returned
    /\ \E j \in DOMAIN out.rows : SumField(PartitionOf(j), "Percent") = 1002

\* C3: the Percent of a row is 100 * Count / D to one decimal, D the Count of
\* the rows that agree with it on Year and on the requested ones of County,
\* Region and AgeBucket; Race, Ethnicity and Sex are no part of the key
C3_DenominatorPolicy ==
    Returned =>
        \A j \in DOMAIN out.rows :
            LET D == SumField(PartitionOf(j), "Count")
            IN  D > 0 => out.rows[j].Percent = RoundHalfEven(1000 * out.rows[j].Count, D)

C3_Witness ==
    /\ Returned
    /\ InSeq("Race", Requested) /\ InSeq("Age", Requested)
    /\ \E j \in DOMAIN out.rows : out.rows[j].Percent = 333

\* C4: every Percent is a number from 0.0 to 100.0, and 0.0 in a partition whose Count is zero
C4_PercentInRange ==
    Returned =>
        \A j \in DOMAIN out.rows :
            /\ out.rows[j].Percent >= 0 /\ out.rows[j].Percent <= 1000
            /\ SumField(PartitionOf(j), "Count") = 0 => out.rows[j].Percent = 0

C4_Witness ==
    /\ Returned
    /\ \E j \in DOMAIN out.rows : SumField(PartitionOf(j), "Count") = 0

\* C5: with no grouping dimension and a positive total, one row: the total, 100.0
C5_TotalsOnly ==
    (Returned /\ Requested = <<>> /\ InputTotal > 0) =>
        /\ Len(out.rows) = 1
        /\ out.rows[1].Count = InputTotal
        /\ out.rows[1].Percent = 1000

C5_Witness ==
    /\ Returned
    /\ choices.grouping_vars = <<"All">>
    /\ Len(df_source.rows) = 2
    /\ InputTotal > 0

\* the columns of a run of the same call on one record of Count 1
NonEmptyRunColumns ==
    aggregate_multi([columns |-> SourceColumns, rows |-> <<AgeRow(1)>>], choices.grouping_vars,
                    "2020", "All Counties", counties_map, choices.agegroup_for_backend,
                    choices.custom_ranges, agegroup_map_implicit).columns

\* C6: no records, or a zero total, gives an empty table with the columns of a non-empty run
C6_EmptyShape ==
    (Returned /\ (df_source.rows = <<>> \/ InputTotal = 0)) =>
        /\ out.rows = <<>>
        /\ out.columns = NonEmptyRunColumns

\* the records of the query after the upstream filtering
UpstreamRows ==
    process_population_data(data_files["2020"], "2020", choices.selected_counties,
                            choices.selected_race_code, choices.selected_ethnicity,
                            choices.selected_sex, choices.selected_region,
                            choices.agegroup_for_backend,
                            IF choices.enable_custom_ranges THEN choices.custom_ranges ELSE <<>>,
                            counties_map, agegroup_map_explicit).rows

\* C7: a query left with no record completes without an error and gives an empty table
C7_EmptyQueryCompletes ==
    (pc # "ready" /\ UpstreamRows = <<>>) => (pc = "returned" /\ out.rows = <<>>)

EndToEndCall == Returned /\ df_source.rows = EndToEndRows /\ choices.grouping_vars = <<"Race">>

ShownRows == {Project(out.rows[j], <<"Race", "Count", "Percent", "Year">>) : j \in DOMAIN out.rows}

\* C8 as stated: the end-to-end example gives White 100 66.7 and Black 50 33.3
C8_EndToEndExample ==
    EndToEndCall =>
        /\ Len(out.rows) = 2
        /\ ShownRows = { [Race |-> "White", Count |-> 100, Percent |-> 667, Year |-> "2020"],
                         [Race |-> "Black", Count |-> 50, Percent |-> 333, Year |-> "2020"] }

\* C8 as amended: the Race column holds the display name of the race code
C8_EndToEndDisplayNames ==
    EndToEndCall =>
        /\ Len(out.rows) = 2
        /\ ShownRows = { [Race |-> "White", Count |-> 100, Percent |-> 667, Year |-> "2020"],
                         [Race |-> "Black or African American", Count |-> 50, Percent |-> 333,
                          Year |-> "2020"] }

C8_Witness == EndToEndCall

RoundTripCall == Returned /\ choices.custom_ranges = << <<1, 5>>, <<6, 10>> >>

BucketOfCode(lo, hi, label) ==
    \A i \in DOMAIN out.rows :
        (out.rows[i].Age >= lo /\ out.rows[i].Age <= hi) => out.rows[i].AgeGroup = label

\* C9 as stated: ranges (1,5),(6,10) give "0-9", "10-19" and "Other Ages"
C9_CustomRangeLabels ==
    RoundTripCall =>
        /\ BucketOfCode(1, 5, "0-9")
        /\ BucketOfCode(6, 10, "10-19")
        /\ BucketOfCode(11, 18, "Other Ages")

\* C9 as amended: the ranges are ranges of age codes, so they give "0-24", "25-49" and "Other Ages"
C9_CustomRangeCodeLabels ==
    RoundTripCall =>
        /\ BucketOfCode(1, 5, "0-24")
        /\ BucketOfCode(6, 10, "25-49")
        /\ BucketOfCode(11, 18, "Other Ages")

C9_Witness == RoundTripCall /\ Len(out.rows) = MaxAgeCode

\* C10: with Age / Region requested every row has a bucket and a region label that is not null
C10_EveryRowLabelled ==
    Returned =>
        /\ InSeq("Region", Requested) => \A j \in DOMAIN out.rows : out.rows[j].Region # NaN
        /\ InSeq("Age", Requested) => \A j \in DOMAIN out.rows : out.rows[j].AgeGroup # NaN
        /\ SumCount(out.rows) = InputTotal

\* ------------------------------------------------------------------------
\* The Region Classifier alone: one record of any county code
\* ------------------------------------------------------------------------
MaxCountyCode == 205

RegionRow(c) ==
    [County |-> c, Race |-> "White", Sex |-> "Male", Ethnicity |-> "Hispanic",
     Count |-> 1, Age |-> 1, Year |-> "2020"]

InitRegion ==
    /\ \E c \in 0 .. MaxCountyCode :
          df_source = [columns |-> SourceColumns, rows |-> <<RegionRow(c)>>]
    /\ data_files = <<>>
    /\ choices = DefaultChoices
    /\ session_state = DefaultSession
    /\ out = NoTable
    /\ pc = "ready"

\* one call of attach_region_column on the frame
ClassifyRegion ==
    /\ pc = "ready"
    /\ out' = attach_region_column(df_source, counties_map)
    /\ pc' = "returned"
    /\ UNCHANGED <<df_source, data_files, session_state, choices>>

NextRegion == ClassifyRegion

SpecRegion == InitRegion /\ [][NextRegion]_vars

\* the tiers in their precedence
RegionTiers ==
    << <<COOK_SET, "Cook County">>, <<COLLAR_SET, "Collar Counties">>,
       <<URBAN_SET, "Urban Counties">>, <<RURAL_SET, "Rural Counties">> >>

\* C11: a county code gets the label of the first tier (Cook, Collar, Urban,
\* Rural) whose set contains it, and "Unknown Region" when no set contains it
C11_FirstTierWins ==
    Returned =>
        \A i \in DOMAIN out.rows :
            LET c == out.rows[i].County
                tiers == {t \in DOMAIN RegionTiers : c \in RegionTiers[t][1]}
            IN  IF tiers = {} THEN out.rows[i].Region = "Unknown Region"
                ELSE out.rows[i].Region = RegionTiers[SetMin(tiers)][2]

\* a Cook or Collar code, which the Urban set lists too, has been labelled
C11_Witness ==
    /\ Returned
    /\ \E i \in DOMAIN out.rows :
          /\ out.rows[i].County \in (COOK_SET \cup COLLAR_SET) \cap URBAN_SET
          /\ out.rows[i].Region \in {"Cook County", "Collar Counties"}

\* the region label the classifier computes for a record of the year file
ComputedRegion(r) == _code_to_region(_county_code_from_row(r, counties_map))

\* the records after the upstream filtering whose computed label is the selected region
ExactRegionRows == SelectSeq(UpstreamRows, LAMBDA r : ComputedRegion(r) = choices.selected_region)

\* C12: with a region selected, only records whose computed label is that
\* region are counted: the Count of the block is the Count of those records,
\* and every County Code and Region of the block carries the selected label
C12_ExactRegionOnly ==
    (Returned /\ RegionFilterActive(choices)) =>
        /\ SumCount(out.rows) = SumCount(ExactRegionRows)
        /\ \A j \in DOMAIN out.rows :
              /\ "County Code" \in DOMAIN out.rows[j] =>
                     _code_to_region(Some(out.rows[j]["County Code"])) = choices.selected_region
              /\ "Region" \in DOMAIN out.rows[j] => out.rows[j].Region = choices.selected_region

\* Urban Counties selected over a file holding a Cook or Collar record and an
\* urban one, and a block came out
C12_Witness ==
    /\ Returned
    /\ choices.selected_region = "Urban Counties"
    /\ choices.selected_race_code = "All"
    /\ InSeq("All", choices.selected_counties)
    /\ data_files["2020"] # <<>>
    /\ \E i \in DOMAIN data_files["2020"][1] :
          data_files["2020"][1][i].County \in COOK_SET \cup COLLAR_SET
    /\ out.rows # <<>>

\* ------------------------------------------------------------------------
\* The sidebar's grouping selection followed by Generate
\* ------------------------------------------------------------------------
\* the selection handed on as it was picked
NormalizeGrouping_keep(grouping_vars) == grouping_vars

\* render_sidebar_controls, lines 114-116: "All" with anything else is "All" alone
NormalizeGrouping(grouping_vars) ==
    IF InSeq("All", grouping_vars) /\ Len(grouping_vars) > 1 THEN <<"All">> ELSE grouping_vars

InitUI ==
    /\ df_source = NoFrame
    /\ \E f \in {<<>>} \cup {<<rows>> : rows \in GenRows} : data_files = ("2020" :> f)
    /\ choices = DefaultChoices
    /\ session_state = DefaultSession
    /\ out = NoTable
    /\ pc = "ready"

\* render_sidebar_controls: the multiselect's value and the grouping_vars returned
RenderSidebar ==
    /\ pc = "ready"
    /\ \E g \in Groupings :
          /\ session_state' = [session_state EXCEPT !.ui_grouping_vars = g]
          /\ choices' = [choices EXCEPT !.grouping_vars = NormalizeGrouping(g)]
    /\ pc' = "rendered"
    /\ UNCHANGED <<df_source, data_files, out>>

\* main, lines 713-715, after the sidebar was rendered
Generate ==
    /\ pc = "rendered"
    /\ Deliver(IF InSeq("All", choices.selected_counties)
               THEN build_block(choices.selected_years, <<"All">>,
                                _county_label_for_all(choices), choices, data_files)
               ELSE build_block(choices.selected_years, choices.selected_counties,
                                "Selected Counties", choices, data_files))
    /\ UNCHANGED <<df_source, data_files, session_state, choices>>

NextUI == RenderSidebar \/ Generate

SpecUI == InitUI /\ [][NextUI]_vars

\* C13: a grouping selection that contains "All" gives a totals-only block:
\* at most one row for the year, and no dimension column
C13_AllForcesTotals ==
    (Returned /\ InSeq("All", session_state.ui_grouping_vars)) =>
        \/ out.rows = <<>>
        \/ /\ Len(out.rows) = 1
           /\ out.columns = <<"County", "Count", "Percent", "Year">>
           /\ DOMAIN out.rows[1] = {"County", "Count", "Percent", "Year"}

\* "All" was picked together with another dimension and a totals row came out
C13_Witness ==
    /\ Returned
    /\ InSeq("All", session_state.ui_grouping_vars)
    /\ Len(session_state.ui_grouping_vars) > 1
    /\ Len(out.rows) = 1
    /\ Len(data_files["2020"][1]) = 2

\* ------------------------------------------------------------------------
\* The whole Generate: data folder, sidebar, report with its keys
\* ------------------------------------------------------------------------
ReportRecord(c, race, year) ==
    [County |-> c, Race |-> race, Sex |-> "Male", Ethnicity |-> "Hispanic",
     Count |-> 1, Age |-> 1, Year |-> year]

\* the year files of the folder: none, one record, or two records
ReportFiles(year) ==
    { <<>>,
      << <<ReportRecord(31, "White", year)>> >>,
      << <<ReportRecord(31, "White", year), ReportRecord(31, "Black", year)>> >>,
      << <<ReportRecord(31, "White", year), ReportRecord(2, "White", year)>> >> }

ReportGroupings == { <<"All">>, <<"Race">>, <<"County">>, <<"Sex", "Race">>, <<"Region">> }

ReportRaces == {"All", "White", "Black or African American"}

InitReport ==
    /\ df_source = NoFrame
    /\ \E f0 \in ReportFiles("2020"), f1 \in ReportFiles("2021") :
          data_files = ("2020" :> f0) @@ ("2021" :> f1)
    /\ choices = DefaultChoices
    /\ session_state = DefaultSession
    /\ out = NoTable
    /\ pc = "ready"

\* render_sidebar_controls: the dict returned for the widgets' values; the pivot
\* checkbox stays at its default (off), the breakdown is forced off when County
\* is a grouping dimension
RenderControls ==
    /\ pc = "ready"
    /\ \E ys \in {<<>>, <<"2020">>, <<"2020", "2021">>}, cs \in {<<"All">>, <<"Cook">>},
          race \in ReportRaces, eth \in {"All", "Hispanic"}, sex \in {"All", "Male"},
          reg \in {"None", "Cook County"}, g \in ReportGroupings :
          /\ session_state' = [session_state EXCEPT !.ui_grouping_vars = g]
          /\ choices' = [DefaultChoices EXCEPT
                            !.selected_years = ys, !.selected_counties = cs,
                            !.selected_race_display = race,
                            !.selected_race_code = RaceCodeOf(race),
                            !.selected_ethnicity = eth, !.selected_sex = sex,
                            !.selected_region = reg,
                            !.grouping_vars = NormalizeGrouping(g),
                            !.include_breakdown = ~InSeq("County", NormalizeGrouping(g))]
    /\ pc' = "rendered"
    /\ UNCHANGED <<df_source, data_files, out>>

\* main, lines 658-662: st.stop() after the warning
GenerateStops(ch) == ch.selected_years = <<>> \/ ch.selected_counties = <<>>

\* the pivot of Generate is asked for a dimension that is a row and a column
PivotRaiseCase(b, ch) ==
    /\ ~b.raised
    /\ ch.pivot_enable
    /\ PivotMayRaise(ReportOf(b.table, SelectedFilters(ch)), ch.pivot_rows, ch.pivot_cols,
                     ch.pivot_vals)

\* the session after the handler ran on the frames b = [raised, table]: the
\* filters are stored first (lines 664-673), the report once every block is
\* there (line 722), the pivot last (lines 733-753); an exception on the way
\* leaves the later entries as they were
SessionAfter(b, ch, pivot_raises) ==
    IF b.raised THEN [session_state EXCEPT !.selected_filters = SelectedFilters(ch)]
    ELSE IF pivot_raises
    THEN [session_state EXCEPT !.selected_filters = SelectedFilters(ch),
                               !.report_df = ReportOf(b.table, SelectedFilters(ch))]
    ELSE [session_state EXCEPT !.selected_filters = SelectedFilters(ch),
                               !.report_df = ReportOf(b.table, SelectedFilters(ch)),
                               !.pivot_df = PivotPreview(ReportOf(b.table, SelectedFilters(ch)),
                                                         ch, SelectedFilters(ch))]

\* main, lines 657-755: the Generate button
GenerateReport ==
    /\ pc = "rendered"
    /\ IF GenerateStops(choices)
       THEN /\ pc' = "stopped"
            /\ UNCHANGED <<session_state, out>>
       ELSE \E pivot_raises \in BOOLEAN :
            /\ pivot_raises => PivotRaiseCase(AllFrames(choices, data_files), choices)
            /\ session_state' = SessionAfter(AllFrames(choices, data_files), choices, pivot_raises)
            /\ out' = session_state'.report_df
            /\ pc' = IF AllFrames(choices, data_files).raised \/ pivot_raises
                     THEN "raised" ELSE "returned"
    /\ UNCHANGED <<df_source, data_files, choices>>

NextReport == RenderControls \/ GenerateReport

SpecReport == InitReport /\ [][NextReport]_vars

\* the column of a grouping dimension in the report
DimensionColumn(g) == IF g = "Age" THEN "AgeGroup" ELSE g

\* the key columns in the stated order: county identity, the requested
\* dimensions other than County, Year
StatedKeyOrder(df, group_by) ==
    (IF HasCol(df, "County Code") /\ HasCol(df, "County Name")
     THEN <<"County Code", "County Name">> ELSE <<"County">>)
    \o [i \in DOMAIN SelectSeq(group_by, LAMBDA g : g \notin {"All", "County"}) |->
           DimensionColumn(SelectSeq(group_by, LAMBDA g : g \notin {"All", "County"})[i])]
    \o <<"Year">>

\* the stated key of a report row
StatedKey(r, order) == JoinTokens([i \in DOMAIN order |-> _normalize_token(r[order[i]])], "_")

HasSuffix(s, t) == Len(t) <= Len(s) /\ SubSeq(s, Len(s) - Len(t) + 1, Len(s)) = t

NoFilterActive(ch) ==
    /\ ch.selected_race_display = "All" /\ ch.selected_ethnicity = "All"
    /\ ch.selected_sex = "All" /\ ch.selected_region = "None"

\* rows i and j of the report agree on every key column but Year
DifferOnlyInYear(df, order, i, j) ==
    /\ df.rows[i].Year # df.rows[j].Year
    /\ \A k \in DOMAIN order : order[k] # "Year" => df.rows[i][order[k]] = df.rows[j][order[k]]

\* a key without its last token, the year
BeforeYear(r) == SubSeq(r.ConcatenatedKey, 1, Len(r.ConcatenatedKey) - Len(_normalize_token(r.Year)))

\* C14: the key of every report row ends with the underscore-join of the
\* normalized county identity columns, the columns of the requested dimensions
\* other than County in the order requested, and Year last; with no filter
\* active the key is exactly that join; two rows that differ only in Year have
\* keys that differ only in the last token
C14_KeyColumnOrder ==
    (Returned /\ out.rows # <<>>) =>
        /\ out.columns[1] = "ConcatenatedKey"
        /\ \A i \in DOMAIN out.rows :
              /\ HasSuffix(out.rows[i].ConcatenatedKey,
                          StatedKey(out.rows[i], StatedKeyOrder(out, choices.grouping_vars)))
              /\ HasSuffix(out.rows[i].ConcatenatedKey, "_" \o _normalize_token(out.rows[i].Year))
              /\ NoFilterActive(choices) =>
                    out.rows[i].ConcatenatedKey =
                        StatedKey(out.rows[i], StatedKeyOrder(out, choices.grouping_vars))
        /\ \A i, j \in DOMAIN out.rows :
              DifferOnlyInYear(out, StatedKeyOrder(out, choices.grouping_vars), i, j) =>
                  /\ BeforeYear(out.rows[i]) = BeforeYear(out.rows[j])
                  /\ out.rows[i].ConcatenatedKey # out.rows[j].ConcatenatedKey

\* a report of two years grouped by two dimensions, with two rows that differ
\* only in Year, and no filter active
C14_Witness ==
    /\ Returned
    /\ choices.grouping_vars = <<"Sex", "Race">>
    /\ NoFilterActive(choices)
    /\ \E i, j \in DOMAIN out.rows :
          /\ DifferOnlyInYear(out, StatedKeyOrder(out, choices.grouping_vars), i, j)
          /\ out.rows[i].ConcatenatedKey = "Selected_Counties_Male_White_2020"
          /\ out.rows[j].ConcatenatedKey = "Selected_Counties_Male_White_2021"

\* the frames of the report before the key is made
GroupedRows == ensure_county_names(AllFrames(choices, data_files).table, counties_map)

\* the filter values of a choice, by dimension
FilterValues(ch) ==
    [Race |-> ch.selected_race_display, Ethnicity |-> ch.selected_ethnicity,
     Sex |-> ch.selected_sex, Region |-> ch.selected_region]

\* the stated token of dimension d: nothing when d is a column of the report or
\* its filter is All or None
StatedToken(df, fv, d) ==
    IF HasCol(df, d) \/ fv[d] \in {"All", "None"} THEN ""
    ELSE (IF d = "Region" THEN "Region_" ELSE "") \o _normalize_token(fv[d]) \o "_"

StatedPrefix(df, fv) ==
    StatedToken(df, fv, "Race") \o StatedToken(df, fv, "Ethnicity")
    \o StatedToken(df, fv, "Sex") \o StatedToken(df, fv, "Region")

\* the other filter settings the sidebar offers
OtherFilters ==
    [race : ReportRaces, ethnicity : {"All", "Hispanic", "Not Hispanic"},
     sex : {"All", "Male", "Female"}, region : {"None", "Cook County"}]

\* a setting that differs from the report's in a dimension that is no column
DiffersOffColumns(df, ch, alt) ==
    \/ ~HasCol(df, "Race") /\ alt.race # ch.selected_race_display
    \/ ~HasCol(df, "Ethnicity") /\ alt.ethnicity # ch.selected_ethnicity
    \/ ~HasCol(df, "Sex") /\ alt.sex # ch.selected_sex
    \/ ~HasCol(df, "Region") /\ alt.region # ch.selected_region

\* the keys of the same grouped rows under another filter setting
KeysUnder(df, ch, alt) ==
    LET keyed == add_concatenated_key_dynamic(df,
                     [SelectedFilters(ch) EXCEPT !.race = alt.race, !.ethnicity = alt.ethnicity,
                                                 !.sex = alt.sex, !.region = alt.region], "_")
    IN  {keyed.rows[i].ConcatenatedKey : i \in DOMAIN keyed.rows}

\* the grouped rows df keyed under any other filter setting share no key with keys
NoKeyShared(df, keys) ==
    \A alt \in OtherFilters :
        DiffersOffColumns(out, choices, alt) => KeysUnder(df, choices, alt) \cap keys = {}

\* C15: every key of the report starts with the normalized values of the
\* active Race, Ethnicity, Sex and Region filters that are no columns of the
\* report (Region as "Region_" and its value), each followed by "_", before
\* the join of the key columns; and the same grouped rows keyed under any
\* other filter setting share no key with the report
C15_FilterPrefix ==
    (Returned /\ out.rows # <<>>) =>
        /\ \A i \in DOMAIN out.rows :
              out.rows[i].ConcatenatedKey =
                  StatedPrefix(out, FilterValues(choices))
                  \o StatedKey(out.rows[i], StatedKeyOrder(out, choices.grouping_vars))
        /\ NoKeyShared(GroupedRows, {out.rows[i].ConcatenatedKey : i \in DOMAIN out.rows})

\* a report with all four filters active, none of them a column
C15_Witness ==
    /\ Returned
    /\ choices.grouping_vars = <<"All">>
    /\ \E i \in DOMAIN out.rows :
          out.rows[i].ConcatenatedKey = "White_Hispanic_Male_Region_Cook_County_Cook_County_2020"

\* ------------------------------------------------------------------------
\* The Pivot Builder alone: a report and the pivot settings of the sidebar
\* ------------------------------------------------------------------------
\* <<Count, Percent>> of a report row, Percent in tenths
PivotMeasures == { <<10, 500>>, <<30, 100>>, <<10, 333>> }

PivotRecords ==
    {[County |-> c, Race |-> r, Count |-> m[1], Percent |-> m[2], Year |-> "2020"] :
        c \in {"Cook", "Adams"}, r \in {"White", "Black or African American"}, m \in PivotMeasures}

\* reports of up to two rows, one row for a county and race
PivotReports ==
    {<<>>} \cup {<<a>> : a \in PivotRecords}
    \cup {p \in PivotRecords \X PivotRecords : p[1].County # p[2].County \/ p[1].Race # p[2].Race}

\* the report as main stores it: the rows grouped by Race, keyed
PivotInput(rows) ==
    ReportOf([columns |-> <<"County", "Race", "Count", "Percent", "Year">>, rows |-> rows],
             SelectedFilters([DefaultChoices EXCEPT !.grouping_vars = <<"Race">>]))

InitPivot ==
    /\ \E rows \in PivotReports : df_source = PivotInput(rows)
    /\ data_files = <<>>
    /\ choices = [DefaultChoices EXCEPT !.grouping_vars = <<"Race">>]
    /\ session_state = DefaultSession
    /\ out = NoTable
    /\ pc = "ready"

\* main, lines 733-745: build_pivot_table on the report with the pivot
\* settings picked in the sidebar, "Sort rows" and "Append" left unticked
BuildPivot ==
    /\ pc = "ready"
    /\ \E rows \in {<<"Race">>, <<"AgeGroup", "Race">>},
          cols \in {<<>>, <<"Year">>, <<"Sex">>, <<"Race">>},
          values \in {<<>>, <<"Count">>, <<"Percent">>, <<"Count", "Percent">>},
          agg \in {"sum", "max"},
          mode \in {"Weighted by Count (rows)", "Mean (unweighted)"},
          margins \in BOOLEAN, flatten \in BOOLEAN, raises \in BOOLEAN :
          /\ raises => PivotMayRaise(df_source, rows, cols, values)
          /\ choices' = [choices EXCEPT !.pivot_enable = TRUE, !.pivot_rows = rows,
                                        !.pivot_cols = cols, !.pivot_vals = values,
                                        !.pivot_agg = agg, !.pivot_pct_mode = mode,
                                        !.pivot_totals = margins, !.pivot_flatten = flatten]
          /\ Deliver([raised |-> raises,
                      table |-> IF raises THEN NoTable
                                ELSE build_pivot_table(df_source, rows, cols, values, agg, mode,
                                                       margins, flatten, FALSE, FALSE)])
    /\ UNCHANGED <<df_source, data_files, session_state>>

NextPivot == BuildPivot

SpecPivot == InitPivot /\ [][NextPivot]_vars

\* the Percent columns of the pivot: those of the Percent piece when Count is
\* shown too, every column but the row dimension's otherwise
PercentColumnsOf(df, values) ==
    IF ~InSeq("Percent", values) \/ df.columns = <<>> THEN {}
    ELSE IF InSeq("Count", values)
    THEN {c \in Range(df.columns) : StartsWith(c, "Percent | ") \/ StartsWith(c, "('Percent', '")}
    ELSE Range(Tail(df.columns))

\* the column label a Percent column stands for
PercentLabelOf(c) ==
    IF StartsWith(c, "Percent | ") THEN SubSeq(c, 11, Len(c))
    ELSE IF StartsWith(c, "('Percent', '") THEN SubSeq(c, 14, Len(c) - 2)
    ELSE c

\* the source rows merged into the cell of row label rk under column label ck:
\* a Total takes every value, and so does a cell of a pivot without a column
\* dimension
SourceRowsOf(df, rk, cdim, ck) ==
    SelectSeq(df.rows, LAMBDA r :
        /\ (rk = "Total" \/ r.Race = rk)
        /\ (cdim = <<>> \/ ck = "Total" \/ r[cdim[1]] = ck))

\* the weighted percent of source rows, rounded to one decimal (in tenths)
WeightedPercent(rows) ==
    IF SumCount(rows) = 0 THEN <<0, 1>>
    ELSE <<RoundHalfEven(SumPctNum(rows), SumCount(rows)), 1>>

\* C16: in weighted percent mode every Percent cell of the pivot, the Total
\* margins included, is the sum of Percent x Count over the source rows of the
\* cell divided by their sum of Count, rounded to one decimal, and 0 when the
\* Count sum is 0
C16_WeightedPercent ==
    (Returned /\ choices.pivot_enable /\ Weighted(choices.pivot_pct_mode)) =>
        \A k \in DOMAIN out.rows :
            \A c \in PercentColumnsOf(out, choices.pivot_vals) :
                out.rows[k][c] =
                    WeightedPercent(SourceRowsOf(df_source, out.rows[k][out.columns[1]],
                                                 PivotDims(choices.pivot_cols, df_source),
                                                 PercentLabelOf(c)))

\* the columns picked without the dimensions picked as rows
ColumnsAfterRows(rows, cols) == SelectSeq(cols, LAMBDA c : ~InSeq(c, rows))

\* C17: a dimension picked as a pivot row and as a pivot column is taken out
\* of the columns: the run ends without an error and the pivot is the one of
\* the rows and the remaining columns
C17_RowsWinConflict ==
    (pc \in {"returned", "raised"} /\ choices.pivot_enable
        /\ PivotConflict(df_source, choices.pivot_rows, choices.pivot_cols)) =>
        /\ Returned
        /\ out = build_pivot_table(df_source, choices.pivot_rows,
                                   ColumnsAfterRows(choices.pivot_rows, choices.pivot_cols),
                                   choices.pivot_vals, choices.pivot_agg, choices.pivot_pct_mode,
                                   choices.pivot_totals, choices.pivot_flatten, FALSE, FALSE)

\* a custom range with its bounds clamped to the age codes
ClampedRange(rg) == <<Max(MinAgeCode, rg[1]), Min(MaxAgeCode, rg[2])>>

\* the range, clamped, is not empty and holds age code a
Covers(rg, a) ==
    /\ ClampedRange(rg)[1] <= ClampedRange(rg)[2]
    /\ a >= ClampedRange(rg)[1] /\ a <= ClampedRange(rg)[2]

\* the supplied ranges that cover the age code of row i
CoveringRanges(i) ==
    {k \in DOMAIN choices.custom_ranges : Covers(choices.custom_ranges[k], df_source.rows[i].Age)}

RangeLabel(rg) == combine_codes_to_label(ClampedRange(rg)[1] .. ClampedRange(rg)[2])

\* C19: under custom ranges every row has the label of the last supplied
\* range that covers its age code, and "Other Ages" when no range covers it
C19_LastRangeWins ==
    (Returned /\ choices.enable_custom_ranges) =>
        \A i \in DOMAIN out.rows :
            out.rows[i].AgeGroup =
                IF CoveringRanges(i) = {} THEN "Other Ages"
                ELSE RangeLabel(choices.custom_ranges[SetMax(CoveringRanges(i))])

\* every age code under the ranges (1,10) then (5,6): code 5 is in both and
\* has the label of the second, code 1 the label of the first, code 12 none
C19_Witness ==
    /\ Returned
    /\ choices.custom_ranges = << <<1, 10>>, <<5, 6>> >>
    /\ Len(out.rows) = MaxAgeCode
    /\ out.rows[5].AgeGroup = RangeLabel(<<5, 6>>)
    /\ out.rows[1].AgeGroup = RangeLabel(<<1, 10>>)
    /\ RangeLabel(<<5, 6>>) # RangeLabel(<<1, 10>>)
    /\ out.rows[12].AgeGroup = "Other Ages"

\* the supplied ranges that are not empty after clamping, clamped
RECURSIVE AppliedRanges(_)
AppliedRanges(ranges) ==
    IF ranges = <<>> THEN <<>>
    ELSE (IF ClampedRange(Head(ranges))[1] <= ClampedRange(Head(ranges))[2]
          THEN <<ClampedRange(Head(ranges))>> ELSE <<>>)
         \o AppliedRanges(Tail(ranges))

\* C20: the call ends without an error; a range that is empty after clamping
\* to [1,18] labels no row, and the other ranges label the rows as they do
\* when supplied alone with their bounds clamped; with no other range every
\* row is "Other Ages"
C20_ClampAndSkip ==
    (pc \in {"returned", "raised"} /\ choices.enable_custom_ranges) =>
        /\ Returned
        /\ IF AppliedRanges(choices.custom_ranges) = <<>>
           THEN \A i \in DOMAIN out.rows : out.rows[i].AgeGroup = "Other Ages"
           ELSE out = attach_agegroup_column(df_source, TRUE, choices.agegroup_for_backend,
                                             AppliedRanges(choices.custom_ranges),
                                             agegroup_map_implicit)

\* the range (10,19) is clamped to (10,18) and (10,5) is skipped: the row of
\* code 19 is left to "Other Ages", the row of code 12 has the label of (10,18)
C20_Witness ==
    /\ Returned
    /\ choices.custom_ranges \in { << <<10, 19>>, <<10, 5>> >>, << <<10, 5>>, <<10, 19>> >> }
    /\ \/ Len(out.rows) = 1 /\ df_source.rows[1].Age = MaxAgeCode + 1
          /\ out.rows[1].AgeGroup = "Other Ages"
       \/ Len(out.rows) = MaxAgeCode /\ out.rows[12].AgeGroup = RangeLabel(<<10, 18>>)

\* ------------------------------------------------------------------------
\* Named bracket definitions (src/app.py 244-258, frontend_bracket_utils 47-75)
\* ------------------------------------------------------------------------
\* expressions a bracket definition of the form-control file may hold: table
\* entries, structural forms outside the table, and texts that are neither
BracketExprs ==
    {"0-19", "80+", " 20-64 ", "5-9", "3-6", "10+", "abc", "x-5", "+", "7-"}

MaxExprs == 2

BracketDefinitions == UNION {[1 .. k -> BracketExprs] : k \in 1 .. MaxExprs}

InitBracket ==
    /\ \E rows \in AgeFrames : df_source = [columns |-> SourceColumns, rows |-> rows]
    /\ \E d \in BracketDefinitions : data_files = ("definition" :> d)
    /\ choices = [DefaultChoices EXCEPT !.grouping_vars = <<"Age">>,
                                        !.agegroup_for_backend = "definition"]
    /\ session_state = DefaultSession
    /\ out = NoTable
    /\ pc = "ready"

\* attach_agegroup_column in named-bracket mode; data_files holds here the map of
\* implicit bracket definitions read from the form-control file
AttachNamedBrackets ==
    /\ pc = "ready"
    /\ out' = attach_agegroup_column(df_source, TRUE, choices.agegroup_for_backend, <<>>,
                                     data_files)
    /\ pc' = "returned"
    /\ UNCHANGED <<df_source, data_files, choices, session_state>>

NextBracket == AttachNamedBrackets

SpecBracket == InitBracket /\ [][NextBracket]_vars

\* the codes an expression selects as the specification states it
TableCodes(e) == UNION {t[2] .. t[3] : t \in {u \in BRACKET_MAP : u[1] = e}}

InTable(e) == \E t \in BRACKET_MAP : t[1] = e

OpenForm(e) == EndsWith(e, "+") /\ IsDigit(SubSeq(e, 1, Len(e) - 1))

ClosedForm(e) == Contains(e, "-") /\ Len(Split(e, "-")) = 2 /\ IsDigit(Split(e, "-")[1]) /\ IsDigit(Split(e, "-")[2])

StatedSelects(age, expr) ==
    LET e == Strip(expr)
    IN  IF InTable(e) THEN age \in TableCodes(e)
        ELSE IF OpenForm(e) THEN age >= DigitsValue(SubSeq(e, 1, Len(e) - 1), 0)
        ELSE IF ClosedForm(e)
        THEN age >= DigitsValue(Split(e, "-")[1], 0) /\ age <= DigitsValue(Split(e, "-")[2], 0)
        ELSE FALSE

SelectingExprs(age, exprs) == {k \in DOMAIN exprs : StatedSelects(age, exprs[k])}

\* C21: in named-bracket mode the call returns without raising, a row selected by
\* an expression (its listed codes when the expression is in the lookup table, its
\* structural reading when it is an "A-B" or "A+" text outside the table, nothing
\* when it is neither) carries the last such expression, and a row selected by no
\* expression of the definition carries "Other Ages".
C21_NamedBracketFailSoft ==
    (pc = "returned" /\ choices.agegroup_for_backend = "definition") =>
        /\ Len(out.rows) = Len(df_source.rows)
        /\ \A i \in DOMAIN out.rows :
              LET hits == SelectingExprs(df_source.rows[i].Age, data_files["definition"])
              IN  out.rows[i].AgeGroup =
                      IF hits = {} THEN "Other Ages" ELSE data_files["definition"][SetMax(hits)]

\* a definition of one table entry and one unparseable text, over all eighteen codes:
\* code 18 is selected by "80+", every other row by nothing
C21_Witness ==
    /\ pc = "returned"
    /\ data_files["definition"] = <<"80+", "x-5">>
    /\ Len(out.rows) = MaxAgeCode
    /\ out.rows[18].AgeGroup = "80+"
    /\ \A i \in 1 .. 17 : out.rows[i].AgeGroup = "Other Ages"


\* ------------------------------------------------------------------------
\* _normalize_token alone (src/app.py 340-345)
\* ------------------------------------------------------------------------
MaxTokenLen == 3

\* characters of the texts tried: a letter, a digit, the kept marks, white
\* space, the backslash and two marks outside every class
TextChars == {"a", "7", "_", "-", " ", "\t", "\\", "+", "/"}

RECURSIVE TextsOfLen(_)
TextsOfLen(n) == IF n = 0 THEN {""} ELSE {c \o t : c \in TextChars, t \in TextsOfLen(n - 1)}

TokenTexts == UNION {TextsOfLen(n) : n \in 0 .. MaxTokenLen}

ValueFrame(text) == [columns |-> <<"value">>, rows |-> <<[value |-> text]>>]

InitToken ==
    /\ \E text \in TokenTexts : df_source = ValueFrame(text)
    /\ data_files = <<>>
    /\ choices = DefaultChoices
    /\ session_state = DefaultSession
    /\ out = NoTable
    /\ pc = "ready"

\* one call of _normalize_token on the value
NormalizeToken ==
    /\ pc = "ready"
    /\ out' = ValueFrame(_normalize_token(df_source.rows[1].value))
    /\ pc' = "returned"
    /\ UNCHANGED <<df_source, data_files, choices, session_state>>

NextToken == NormalizeToken

SpecToken == InitToken /\ [][NextToken]_vars

\* the class [0-9A-Za-z_-] of the specification
StatedTokenChars == TokenChars \ {"\\"}

\* C22: every character of the token _normalize_token returns belongs to
\* [0-9A-Za-z_-], whatever the value was.
C22_TokenCharset ==
    pc = "returned" =>
        \A i \in 1 .. Len(out.rows[1].value) : CharAt(out.rows[1].value, i) \in StatedTokenChars


\* ------------------------------------------------------------------------
\* The Pivot Builder over several dimensions: row sorting, margins, stacking
\* ------------------------------------------------------------------------
MaxPivotRows == 3

\* the county, race and year of a report row, in the order of the report
DimCombos ==
    << [County |-> "Adams", Race |-> "Black or African American", Year |-> "2020"],
       [County |-> "Adams", Race |-> "Black or African American", Year |-> "2021"],
       [County |-> "Adams", Race |-> "White", Year |-> "2020"],
       [County |-> "Adams", Race |-> "White", Year |-> "2021"],
       [County |-> "Cook", Race |-> "Black or African American", Year |-> "2020"],
       [County |-> "Cook", Race |-> "Black or African American", Year |-> "2021"],
       [County |-> "Cook", Race |-> "White", Year |-> "2020"],
       [County |-> "Cook", Race |-> "White", Year |-> "2021"] >>

\* <<Count, Percent>> of a report row, Percent in tenths
DimMeasures == { <<10, 500>>, <<30, 100>> }

DimRow(c, m) == [County |-> c.County, Race |-> c.Race, Year |-> c.Year, Count |-> m[1], Percent |-> m[2]]

\* the report rows of the combinations S with the measures ms
DimRows(S, ms) == [k \in DOMAIN SelectSeq(DimCombos, LAMBDA c : c \in S) |-> DimRow(SelectSeq(DimCombos, LAMBDA c : c \in S)[k], ms[SelectSeq(DimCombos, LAMBDA c : c \in S)[k]])]

DimReports ==
    UNION { {DimRows(S, ms) : ms \in [S -> DimMeasures]} :
            S \in {T \in SUBSET Range(DimCombos) : Cardinality(T) <= MaxPivotRows} }

InitPivotDims ==
    /\ \E rows \in DimReports :
          df_source = [columns |-> <<"County", "Race", "Count", "Percent", "Year">>, rows |-> rows]
    /\ data_files = <<>>
    /\ choices = [DefaultChoices EXCEPT !.grouping_vars = <<"Race">>]
    /\ session_state = DefaultSession
    /\ out = NoTable
    /\ pc = "ready"

\* main, lines 733-745: build_pivot_table on a report of county blocks with the
\* pivot settings picked in the sidebar
BuildPivotOfDims ==
    /\ pc = "ready"
    /\ \E rows \in {<<"County">>, <<"County", "Race">>, <<"Race", "County">>, <<"AgeGroup", "County">>},
          cols \in {<<>>, <<"Year">>},
          values \in {<<"Count">>, <<"Percent">>, <<"Count", "Percent">>},
          agg \in {"sum", "max"},
          margins \in BOOLEAN, sort_rows \in BOOLEAN, append \in BOOLEAN :
          /\ choices' = [choices EXCEPT !.pivot_enable = TRUE, !.pivot_rows = rows,
                                        !.pivot_cols = cols, !.pivot_vals = values,
                                        !.pivot_agg = agg, !.pivot_totals = margins,
                                        !.pivot_sort_rows = sort_rows,
                                        !.pivot_append_mode = append]
          /\ out' = build_pivot_table(df_source, rows, cols, values, agg, choices.pivot_pct_mode,
                                      margins, choices.pivot_flatten, sort_rows, append)
    /\ pc' = "returned"
    /\ UNCHANGED <<df_source, data_files, session_state>>

NextPivotDims == BuildPivotOfDims

SpecPivotDims == InitPivotDims /\ [][NextPivotDims]_vars


\* the column of the Count grand total: the Total margin of the column
\* dimension, or the Count column itself when there is no column dimension
GrandTotalColumn(columns) ==
    IF InSeq("Total", columns) THEN "Total"
    ELSE IF InSeq("Count | Total", columns) THEN "Count | Total"
    ELSE IF InSeq("Count", columns) THEN "Count"
    ELSE IF InSeq("Count | Count", columns) THEN "Count | Count"
    ELSE ""

\* the place of a pivot row in the unsorted pivot
OriginalPlace(r, ch) ==
    CHOOSE k \in DOMAIN RowKeys(df_source, PivotDims(ch.pivot_rows, df_source), ch.pivot_totals) :
        RowKeys(df_source, PivotDims(ch.pivot_rows, df_source), ch.pivot_totals)[k]
            = [j \in DOMAIN PivotDims(ch.pivot_rows, df_source) |-> r[PivotDims(ch.pivot_rows, df_source)[j]]]

InGrandTotalOrder(a, b, g, ch) ==
    \/ a[g] > b[g]
    \/ (a[g] = b[g] /\ OriginalPlace(a, ch) < OriginalPlace(b, ch))

\* C23: with row sorting enabled the rows of the pivot are in descending order
\* of the Count grand total, and rows of equal grand total are in the order they
\* had before the sort.
C23_SortByGrandTotal ==
    (pc = "returned" /\ choices.pivot_sort_rows /\ ~choices.pivot_append_mode
        /\ InSeq("Count", choices.pivot_vals) /\ GrandTotalColumn(out.columns) # "") =>
        \A k \in 1 .. Len(out.rows) - 1 :
            InGrandTotalOrder(out.rows[k], out.rows[k + 1], GrandTotalColumn(out.columns), choices)


\* the Count columns of a flattened pivot: those of the Count piece when Percent
\* is shown too, every column but the row dimensions' otherwise
CountColumnsOf(df, ch) ==
    IF Len(ch.pivot_vals) = 2
    THEN {c \in Range(df.columns) : StartsWith(c, "Count | ")}
    ELSE Range(df.columns) \ (Range(PivotDims(ch.pivot_rows, df_source)) \cup {"PivotRowDim"})

TotalColumnOf(ch) == IF Len(ch.pivot_vals) = 2 THEN "Count | Total" ELSE "Total"

RECURSIVE SumCells(_, _)
SumCells(r, cs) ==
    IF cs = {} THEN 0
    ELSE r[CHOOSE c \in cs : TRUE] + SumCells(r, cs \ {CHOOSE c \in cs : TRUE})

RECURSIVE SumColumn(_, _)
SumColumn(rows, c) == IF rows = <<>> THEN 0 ELSE Head(rows)[c] + SumColumn(Tail(rows), c)

IsTotalRow(r, df) == r[df.columns[1]] = "Total"

\* C24: with margins enabled and a column dimension the pivot has a "Total" row and
\* a "Total" column, the Total column of every row is the sum of the row's other
\* Count cells and the Total row of every Count column is the sum of the column's
\* other cells, whatever the row dimensions and the Count reducer.
C24_CountTotalsAreSums ==
    (pc = "returned" /\ choices.pivot_totals /\ ~choices.pivot_append_mode
        /\ InSeq("Count", choices.pivot_vals)
        /\ PivotDims(choices.pivot_cols, df_source) # <<>> /\ df_source.rows # <<>>) =>
        /\ TotalColumnOf(choices) \in Range(out.columns)
        /\ \E k \in DOMAIN out.rows : IsTotalRow(out.rows[k], out)
        /\ \A k \in DOMAIN out.rows :
              out.rows[k][TotalColumnOf(choices)] =
                  SumCells(out.rows[k], CountColumnsOf(out, choices) \ {TotalColumnOf(choices)})
        /\ \A c \in CountColumnsOf(out, choices) :
              \A k \in DOMAIN out.rows :
                  IsTotalRow(out.rows[k], out) =>
                      out.rows[k][c] =
                          SumColumn(SelectSeq(out.rows, LAMBDA r : ~IsTotalRow(r, out)), c)


\* the label of a Count column
CountLabelOf(c, ch) == IF Len(ch.pivot_vals) = 2 THEN SubSeq(c, 9, Len(c)) ELSE c

\* the row dimensions and the column dimension in force
RowDimsOf(ch) == PivotDims(ch.pivot_rows, df_source)

ColDimsOf(ch) == PivotDims(ch.pivot_cols, df_source)

Stacks(ch) == ch.pivot_append_mode /\ Len(RowDimsOf(ch)) > 1

PlaceOf(d, dims) == CHOOSE j \in DOMAIN dims : dims[j] = d

\* the Count cells of pivot row r are those of the row key `key` on dimensions `dims`
CountsKeyedOn(r, dims, key, ch) ==
    \A c \in (IF InSeq("Count", ch.pivot_vals) THEN CountColumnsOf(out, ch) ELSE {}) :
        r[c] = CountCell(CellRows(df_source, dims, ColDimsOf(ch), key, CountLabelOf(c, ch)),
                         ch.pivot_agg)

\* the keys a pivot on the single dimension d has
BlockKeys(d, ch) ==
    {df_source.rows[i][d] : i \in DOMAIN df_source.rows}
    \cup (IF ch.pivot_totals THEN {"Total"} ELSE {})

BlockOfDim(d) == SelectSeq(out.rows, LAMBDA r : r["PivotRowDim"] = d)

StackedAsStated(ch) ==
    /\ out.columns[1] = "PivotRowDim"
    /\ \A k \in 1 .. Len(out.rows) - 1 :
          PlaceOf(out.rows[k]["PivotRowDim"], RowDimsOf(ch))
              <= PlaceOf(out.rows[k + 1]["PivotRowDim"], RowDimsOf(ch))
    /\ \A d \in Range(RowDimsOf(ch)) :
          /\ {r[d] : r \in Range(BlockOfDim(d))} = BlockKeys(d, ch)
          /\ Len(BlockOfDim(d)) = Cardinality(BlockKeys(d, ch))
          /\ \A r \in Range(BlockOfDim(d)) :
                /\ \A e \in Range(RowDimsOf(ch)) \ {d} : r[e] = NaN
                /\ CountsKeyedOn(r, <<d>>, <<r[d]>>, ch)

SingleAsStated(ch) ==
    /\ ~InSeq("PivotRowDim", out.columns)
    /\ \A k \in DOMAIN out.rows :
          CountsKeyedOn(out.rows[k], RowDimsOf(ch),
                        [j \in DOMAIN RowDimsOf(ch) |-> out.rows[k][RowDimsOf(ch)[j]]], ch)
    /\ \A k, l \in DOMAIN out.rows :
          (\A d \in Range(RowDimsOf(ch)) : out.rows[k][d] = out.rows[l][d]) => k = l

BlockFiles(year) ==
    { <<>>,
      << <<ReportRecord(31, "White", year)>> >>,
      << <<ReportRecord(1, "White", year)>> >>,
      << <<ReportRecord(31, "White", year), ReportRecord(1, "White", year)>> >>,
      << <<ReportRecord(31, "White", year), ReportRecord(1, "Black", year)>> >> }

InitBlocks ==
    /\ df_source = NoFrame
    /\ \E f0 \in BlockFiles("2020"), f1 \in BlockFiles("2021") :
          data_files = ("2020" :> f0) @@ ("2021" :> f1)
    /\ choices = DefaultChoices
    /\ session_state = DefaultSession
    /\ out = NoTable
    /\ pc = "ready"

\* render_sidebar_controls: years and counties in the order they were picked, the
\* grouping and the breakdown checkbox; the pivot checkbox stays off
PickSelection ==
    /\ pc = "ready"
    /\ \E ys \in {<<>>, <<"2020">>, <<"2020", "2021">>, <<"2021", "2020">>},
          cs \in {<<"All">>, <<"Cook">>, <<"Cook", "Adams">>, <<"Adams", "Cook">>},
          g \in {<<"All">>, <<"Race">>, <<"County">>}, breakdown \in BOOLEAN :
          /\ session_state' = [session_state EXCEPT !.ui_grouping_vars = g]
          /\ choices' = [DefaultChoices EXCEPT
                            !.selected_years = ys, !.selected_counties = cs,
                            !.grouping_vars = NormalizeGrouping(g),
                            !.include_breakdown =
                                breakdown /\ ~InSeq("County", NormalizeGrouping(g))]
    /\ pc' = "rendered"
    /\ UNCHANGED <<df_source, data_files, out>>

NextBlocks == PickSelection \/ GenerateReport

SpecBlocks == InitBlocks /\ [][NextBlocks]_vars


\* the County label of the combined block
CombinedLabel(ch) ==
    IF InSeq("All", ch.selected_counties) THEN _county_label_for_all(ch) ELSE "Selected Counties"

\* the rows carry block labels in their County column unless County is grouped by
LabelledBlocks(ch) == ~InSeq("County", ch.grouping_vars)

\* the place of a row's block: 0 for the combined block, then the selected counties
BlockPlace(r, ch) ==
    IF r.County = CombinedLabel(ch) THEN 0
    ELSE CHOOSE j \in DOMAIN ch.selected_counties : ch.selected_counties[j] = r.County

YearPlace(r, ch) == CHOOSE j \in DOMAIN ch.selected_years : ch.selected_years[j] = r.Year

\* the year file has a record of the county
HasRecords(files, year, county) ==
    \E i \in DOMAIN files[year][1] : files[year][1][i].County = counties_map[county]

\* C26: in the report of one Generate the rows of the combined block come first,
\* then the breakdown blocks in the order the counties were selected, the years of
\* every block in the order selected, and every block with data is there whole.
C26_BlockOrder ==
    (pc = "returned" /\ LabelledBlocks(choices)) =>
        /\ \A k, l \in DOMAIN out.rows :
              k < l =>
                  /\ BlockPlace(out.rows[k], choices) <= BlockPlace(out.rows[l], choices)
                  /\ (out.rows[k].County = out.rows[l].County
                         => YearPlace(out.rows[k], choices) <= YearPlace(out.rows[l], choices))
        /\ (choices.include_breakdown /\ ~InSeq("All", choices.selected_counties)) =>
              \A c \in Range(choices.selected_counties), y \in Range(choices.selected_years) :
                  (data_files[y] # <<>> /\ HasRecords(data_files, y, c)) =>
                      /\ \E k \in DOMAIN out.rows : out.rows[k].County = c /\ out.rows[k].Year = y
                      /\ \E k \in DOMAIN out.rows :
                            out.rows[k].County = "Selected Counties" /\ out.rows[k].Year = y

\* Adams then Cook over 2021 then 2020: six rows, the combined block first
C26_Witness ==
    /\ pc = "returned"
    /\ choices.selected_counties = <<"Adams", "Cook">>
    /\ choices.selected_years = <<"2021", "2020">>
    /\ Len(out.rows) = 6
    /\ out.rows[1].County = "Selected Counties" /\ out.rows[1].Year = "2021"
    /\ out.rows[2].County = "Selected Counties" /\ out.rows[2].Year = "2020"
    /\ out.rows[3].County = "Adams" /\ out.rows[3].Year = "2021"
    /\ out.rows[6].County = "Cook" /\ out.rows[6].Year = "2020"


\* ------------------------------------------------------------------------
\* A merged label given back as a bracket expression
\* ------------------------------------------------------------------------
CodeRanges == {rg \in (MinAgeCode .. MaxAgeCode) \X (MinAgeCode .. MaxAgeCode) : rg[1] <= rg[2]}

\* the definition holds the one label combine_codes_to_label gives the codes of
\* the range; choices.custom_ranges keeps the range the label was made from
InitRoundTrip ==
    /\ \E rows \in AgeFrames : df_source = [columns |-> SourceColumns, rows |-> rows]
    /\ \E rg \in CodeRanges :
          /\ data_files = ("definition" :> <<combine_codes_to_label(rg[1] .. rg[2])>>)
          /\ choices = [DefaultChoices EXCEPT !.grouping_vars = <<"Age">>,
                                              !.agegroup_for_backend = "definition",
                                              !.custom_ranges = <<rg>>]
    /\ session_state = DefaultSession
    /\ out = NoTable
    /\ pc = "ready"

SpecRoundTrip == InitRoundTrip /\ [][NextBracket]_vars

\* C27: the label combine_codes_to_label gives the codes a..b, taken as a bracket
\* expression, selects exactly the rows whose age code is in a..b.
C27_LabelRoundTrip ==
    (pc = "returned" /\ choices.custom_ranges # <<>>) =>
        \A i \in DOMAIN out.rows :
            df_source.rows[i].Age \in MinAgeCode .. MaxAgeCode =>
                ((out.rows[i].AgeGroup = data_files["definition"][1])
                    <=> (df_source.rows[i].Age \in choices.custom_ranges[1][1] .. choices.custom_ranges[1][2]))


\* ------------------------------------------------------------------------
\* The session over several runs of the page: sidebar, Generate, Clear
\* ------------------------------------------------------------------------
\* the 2020 file holds records of Cook; the 2021 file may be missing
SessionFiles ==
    { ("2020" :> f0) @@ ("2021" :> f1) :
        f0 \in { << <<ReportRecord(31, "White", "2020")>> >>,
                 << <<ReportRecord(31, "White", "2020"), ReportRecord(31, "Black", "2020")>> >> },
        f1 \in { <<>>, << <<ReportRecord(31, "White", "2021")>> >> } }

InitSession ==
    /\ df_source = NoFrame
    /\ data_files \in SessionFiles
    /\ choices = DefaultChoices
    /\ session_state = DefaultSession
    /\ out = NoTable
    /\ pc = "ready"

\* the pivot settings the sidebar is given here
SessionPivotCols == {<<>>, <<"Year">>}
SessionPivotAggs == {"sum", "max"}

\* a run of the page after a widget changed, Generate not clicked:
\* render_sidebar_controls returns the new choices, the session keeps its results
ChangeSidebar ==
    /\ \E ys \in {<<>>, <<"2020">>, <<"2021">>}, reg \in {"None", "Cook County"},
          enable \in BOOLEAN, cols \in SessionPivotCols, agg \in SessionPivotAggs,
          mode \in {"Raw", "Both"} :
          choices' = [DefaultChoices EXCEPT
                         !.selected_years = ys, !.selected_region = reg,
                         !.grouping_vars = <<"Race">>,
                         !.pivot_enable = enable, !.pivot_rows = <<"Race">>,
                         !.pivot_cols = cols, !.pivot_agg = agg,
                         !.pivot_export_mode = mode]
    /\ session_state' = [session_state EXCEPT !.ui_grouping_vars = <<"Race">>]
    /\ pc' = "rendered"
    /\ UNCHANGED <<df_source, data_files, out>>

\* main, lines 644-648: the Clear button, then st.rerun() renders the page again
ClearResults ==
    /\ pc # "ready"
    /\ session_state' = [session_state EXCEPT !.report_df = NoTable, !.pivot_df = NoTable,
                                              !.selected_filters = <<>>]
    /\ out' = NoTable
    /\ pc' = "rendered"
    /\ UNCHANGED <<df_source, data_files, choices>>

NextSession == ChangeSidebar \/ GenerateReport \/ ClearResults

SpecSession == InitSession /\ [][NextSession]_vars

\* the sidebar choices a stored selected_filters describes
QueryOf(f) ==
    [DefaultChoices EXCEPT
        !.selected_years = f.years, !.selected_counties = f.counties,
        !.selected_race_display = f.race, !.selected_race_code = RaceCodeOf(f.race),
        !.selected_ethnicity = f.ethnicity, !.selected_sex = f.sex,
        !.selected_region = f.region, !.grouping_vars = f.group_by]

\* the pivot choices of some run of the sidebar
PivotChoicesOf(cols, agg) ==
    [DefaultChoices EXCEPT !.pivot_enable = TRUE, !.pivot_rows = <<"Race">>,
                           !.pivot_cols = cols, !.pivot_agg = agg]

\* the held pivot was built from the held report
PivotOfHeldReport(ss) ==
    ss.pivot_df.rows # <<>> =>
        \E cols \in SessionPivotCols, agg \in SessionPivotAggs :
            ss.pivot_df = PivotPreview(ss.report_df, PivotChoicesOf(cols, agg), ss.selected_filters)

\* the held report is the one the query of selected_filters produces
FiltersOfHeldReport(ss, files) ==
    ss.report_df.rows # <<>> =>
        /\ ss.selected_filters # <<>>
        /\ ~AllFrames(QueryOf(ss.selected_filters), files).raised
        /\ ss.report_df = ReportOf(AllFrames(QueryOf(ss.selected_filters), files).table,
                                   ss.selected_filters)

\* C28: after any sequence of sidebar changes, Generate and Clear, a Generate that
\* stops or raises included, the held pivot is empty or the pivot of the held
\* report, and selected_filters describes the query that produced the held report.
C28_SessionConsistent ==
    /\ PivotOfHeldReport(session_state)
    /\ FiltersOfHeldReport(session_state, data_files)


\* ------------------------------------------------------------------------
\* The pivot export of the results section
\* ------------------------------------------------------------------------
YesNo(b) == IF b THEN "Yes" ELSE "No"

\* ', '.join(names) or fallback
JoinedOr(names, fallback) ==
    IF JoinTokens(names, ", ") = "" THEN fallback ELSE JoinTokens(names, ", ")

\* main, lines 791-802: the lines of pmeta, the line of the clock left out
PivotPreamble(ch) ==
    << "# Illinois Population Data Explorer - Pivot Export",
       "# Rows: " \o JoinedOr(ch.pivot_rows, "(none)"),
       "# Columns: " \o JoinedOr(ch.pivot_cols, "(none)"),
       "# Values: " \o JoinTokens(ch.pivot_vals, ", "),
       "# Count agg: " \o ch.pivot_agg,
       "# Percent mode: " \o ch.pivot_pct_mode,
       "# Totals: " \o YesNo(ch.pivot_totals),
       "# Flatten headers: " \o YesNo(ch.pivot_flatten),
       "# Append per row variable: " \o YesNo(ch.pivot_append_mode),
       "#" >>

\* main, lines 758, 781, 787: the pivot download is on the page
PivotExportOffered(ch, ss) ==
    /\ ss.report_df.rows # <<>>
    /\ ch.pivot_enable /\ ch.pivot_export_mode \in {"Pivot", "Both"}
    /\ ss.pivot_df.rows # <<>>

\* main, lines 787-805: the preamble and the table of the pivot download
PivotExport(ch, ss) ==
    [preamble |-> PivotPreamble(ch), table |-> ss.pivot_df]

\* the results section was rendered by the last run of the page
ResultsRendered == pc \in {"rendered", "returned"}

\* C30: whenever the pivot export is offered, the configuration written in its
\* preamble is a configuration that builds the exported pivot table from the
\* held report, for any sequence of Generate and sidebar changes.
C30_PreambleOfBuiltPivot ==
    (ResultsRendered /\ PivotExportOffered(choices, session_state)) =>
        \E cols \in SessionPivotCols, agg \in SessionPivotAggs :
            /\ PivotExport(choices, session_state).preamble = PivotPreamble(PivotChoicesOf(cols, agg))
            /\ PivotExport(choices, session_state).table =
                   PivotPreview(session_state.report_df, PivotChoicesOf(cols, agg),
                                session_state.selected_filters)


\* ------------------------------------------------------------------------
\* The pivot of a report with a combined block and per-county blocks
\* ------------------------------------------------------------------------
\* render_sidebar_controls: counties picked by name, grouped by Race, the pivot
\* enabled with Race as its row dimension and the sum reducer
PickPivotSelection ==
    /\ pc = "ready"
    /\ \E ys \in {<<"2020">>, <<"2020", "2021">>},
          cs \in {<<"All">>, <<"Cook">>, <<"Cook", "Adams">>},
          breakdown \in BOOLEAN, cols \in {<<>>, <<"Year">>}, margins \in BOOLEAN :
          choices' = [DefaultChoices EXCEPT
                         !.selected_years = ys, !.selected_counties = cs,
                         !.grouping_vars = <<"Race">>, !.include_breakdown = breakdown,
                         !.pivot_enable = TRUE, !.pivot_rows = <<"Race">>,
                         !.pivot_cols = cols, !.pivot_totals = margins]
    /\ session_state' = [session_state EXCEPT !.ui_grouping_vars = <<"Race">>]
    /\ pc' = "rendered"
    /\ UNCHANGED <<df_source, data_files, out>>

NextPivotBlocks == PickPivotSelection \/ GenerateReport

SpecPivotBlocks == InitBlocks /\ [][NextPivotBlocks]_vars

\* the records of a year file the county selection takes
SelectedRecords(files, year, ch) ==
    IF files[year] = <<>> THEN <<>>
    ELSE SelectSeq(files[year][1],
                   LAMBDA r : InSeq("All", ch.selected_counties)
                              \/ \E j \in DOMAIN ch.selected_counties :
                                     counties_map[ch.selected_counties[j]] = r.County)

\* the sum of Count of the records of one year shown as race rv ("Total": any)
RECURSIVE RecordCount(_, _)
RecordCount(records, rv) ==
    IF records = <<>> THEN 0
    ELSE (IF rv = "Total" \/ RaceDisplay(Head(records).Race) = rv THEN Head(records).Count ELSE 0)
         + RecordCount(Tail(records), rv)

\* the same over the selected years (each year once)
RECURSIVE RecordCountOfYears(_, _, _, _)
RecordCountOfYears(files, years, ch, rv) ==
    IF years = {} THEN 0
    ELSE RecordCount(SelectedRecords(files, CHOOSE y \in years : TRUE, ch), rv)
         + RecordCountOfYears(files, years \ {CHOOSE y \in years : TRUE}, ch, rv)

\* the years a Count column of the pivot stands for
YearsOfColumn(c, ch) == IF c \in {"Count", "Total"} THEN Range(ch.selected_years) ELSE {c}

\* the Count columns of the stored pivot
PivotCountColumns(pv) == Range(pv.columns) \ {"Race", "ConcatenatedKey"}

\* a report of a combined block and at least one county block, pivoted
BreakdownPivoted ==
    /\ pc = "returned"
    /\ choices.include_breakdown /\ ~InSeq("All", choices.selected_counties)
    /\ session_state.pivot_df.rows # <<>>

\* C29: in the pivot (sum reducer) of a report made of a combined block and
\* per-county blocks every Count cell, the Total row and the Total column
\* included, is the sum of Count of the distinct records of its race and years.
C29_NoDoubleCount ==
    BreakdownPivoted =>
        \A k \in DOMAIN session_state.pivot_df.rows :
            \A c \in PivotCountColumns(session_state.pivot_df) :
                session_state.pivot_df.rows[k][c] =
                    RecordCountOfYears(data_files, YearsOfColumn(c, choices), choices,
                                       session_state.pivot_df.rows[k].Race)

====
